---------------------------- MODULE Spec2Model ----------------------------
(***************************************************************************)
(* Model of the hashtag core of ALwrity-AI-Hashtag-Generator:              *)
(*   - generate_hashtags (src/hashtag_generator.py, duplicated in          *)
(*     src/app.py): get_api_key, the credential check, str.format of the   *)
(*     prompt, the gateway call, the normalization loop;                   *)
(*   - adjust_count_for_platform, the PLATFORM_CONFIG and                  *)
(*     CATEGORY_KEYWORDS tables and their lookups;                         *)
(*   - get_enhanced_prompt over the ENHANCED_PROMPT template;              *)
(*   - the button run of main (src/app.py).                                *)
(* A reply text is a sequence of Unicode code points, so that str.strip,   *)
(* str.split, str.isalnum and " ".join are modelled by what they do; a     *)
(* prompt is a sequence of pieces of text with the braces as pieces of     *)
(* their own, so that str.format is.                                       *)
(***************************************************************************)
EXTENDS Integers, Sequences, FiniteSets, TLC

VARIABLES
    secrets,        \* the Streamlit secrets store
    environ,        \* os.environ
    pc,             \* position of the generate_hashtags invocation
    api_key,        \* the local api_key of generate_hashtags
    configured,     \* genai.configure has been called
    seed,           \* generate_hashtags argument seed
    num,            \* generate_hashtags argument num
    prompt_template, \* generate_hashtags argument prompt_template
    prompt,         \* the local prompt of generate_hashtags
    sent,           \* the prompts generate_content has been called with
    response,       \* the gateway reply, by its .text
    raw_tokens,     \* text.replace("\n", " ").split()
    idx,            \* how many raw tokens the for loop has taken
    cleaned,        \* the list being built
    seen,           \* the set of accepted tokens
    result,         \* the returned list
    error,          \* the error raised to the caller, NoError when none
    platform,       \* adjust_count_for_platform argument platform
    user_count,     \* adjust_count_for_platform argument user_count
    adjusted,       \* outcome of adjust_count_for_platform
    platform_config,    \* the module-level dict PLATFORM_CONFIG
    category_keywords,  \* the module-level dict CATEGORY_KEYWORDS
    prompt_args,    \* the arguments get_enhanced_prompt is called with
    last,           \* the last call of a lookup or of get_enhanced_prompt
    first,          \* the first call of get_enhanced_prompt, remembered
    between,        \* another call has been made since that first call
    notice,         \* the message main shows: warning, success or info
    shown_error,    \* the error main shows with st.error
    generated_hashtags, \* st.session_state.generated_hashtags
    hashtags_text,  \* st.session_state["hashtags_text"]
    tip,            \* the platform tip of main: the range shown, or none
    history,        \* what the caller has got back from generate_hashtags so far
    url,            \* extract_content_from_url argument url
    fetched,        \* the URLs requests.get has been called with
    extracted,      \* outcome of extract_content_from_url
    session_state,  \* st.session_state of the wizard
    wizard_shown,   \* what the wizard's script run has shown
    requests_made   \* the calls of generate_hashtags_with_exa so far

genVars == <<secrets, environ, pc, api_key, configured, seed, num,
             prompt_template, prompt, sent, response, raw_tokens, idx, cleaned,
             seen, result, error>>
adjVars == <<platform, user_count, adjusted>>

tabVars == <<platform_config, category_keywords>>
promptVars == <<prompt_args, last, first, between>>
mainVars == <<notice, shown_error, generated_hashtags, hashtags_text, tip>>
callerVars == <<history>>
urlVars == <<url, fetched, extracted>>
wizVars == <<session_state, wizard_shown, requests_made>>
otherVars == <<callerVars, urlVars, wizVars>>

vars == <<genVars, adjVars, tabVars, promptVars, mainVars, otherVars>>

---------------------------------------------------------------------------
(* Bounds of the model.                                                    *)

\* longest gateway reply over the whole Alphabet, in characters
MaxLen == 3
\* longest gateway reply over the CoreAlphabet, in characters
MaxCoreLen == 5
\* largest num handed to generate_hashtags
MaxNum == 3
\* requested counts range over -MaxCount..MaxCount
MaxCount == 21
\* longest content handed to get_enhanced_prompt, in pieces
MaxContentLen == 2
\* largest num handed to get_enhanced_prompt
MaxPromptNum == 2
\* most invocations of generate_hashtags one caller makes in a row
MaxCalls == 3
\* longest URL handed to extract_content_from_url, in pieces
MaxUrlParts == 4

---------------------------------------------------------------------------
(* Characters, as code points.                                             *)

HASH == 35
UNDERSCORE == 95
SPACE == 32
NEWLINE == 10

\* '\n', ' ', '!', '#', '2', 'A', '_', 'a', U+00E9 (e acute), U+1F600 (emoji)
Alphabet == {10, 32, 33, 35, 50, 65, 95, 97, 233, 128512}
\* '\n', ' ', '!', '#', 'A', 'a': enough for several tokens that repeat
CoreAlphabet == {10, 32, 33, 35, 65, 97}

\* str.isspace, which str.strip() and str.split() use
IsSpace(ch) ==
    \/ ch \in 9..13
    \/ ch \in 28..32
    \/ ch \in {133, 160, 5760, 8232, 8233, 8239, 8287, 12288}
    \/ ch \in 8192..8202

IsAsciiAlnum(ch) == ch \in 48..57 \/ ch \in 65..90 \/ ch \in 97..122

\* str.isalnum is Unicode-aware: exact below U+0100, and false for U+1F600
IsAlnum(ch) ==
    \/ IsAsciiAlnum(ch)
    \/ ch \in {170, 178, 179, 181, 185, 186, 188, 189, 190}
    \/ ch \in 192..214
    \/ ch \in 216..246
    \/ ch \in 248..255

---------------------------------------------------------------------------
(* String operations of the normalization, on sequences of code points.    *)

\* all strings over alphabet A of at most n characters
Strings(A, n) == UNION {[1..k -> A] : k \in 0..n}

\* str.strip(): leading and trailing whitespace removed
Strip(s) ==
    LET keep == {i \in 1..Len(s) : ~IsSpace(s[i])}
    IN  IF keep = {} THEN <<>>
        ELSE LET lo == CHOOSE i \in keep : \A j \in keep : i <= j
                 hi == CHOOSE i \in keep : \A j \in keep : j <= i
             IN  SubSeq(s, lo, hi)

\* text.replace("\n", " ")
ReplaceNewlines(s) == [i \in 1..Len(s) |-> IF s[i] = NEWLINE THEN SPACE ELSE s[i]]

\* str.split(): the maximal runs of non-whitespace characters, in order;
\* from position i on, the next run and then the rest
RECURSIVE SplitFrom(_, _)
SplitFrom(s, i) ==
    LET starts == {j \in i..Len(s) : ~IsSpace(s[j])}
    IN  IF starts = {} THEN <<>>
        ELSE LET lo == CHOOSE j \in starts : \A k \in starts : j <= k
                 stops == {j \in lo..Len(s) : IsSpace(s[j])}
                 hi == IF stops = {} THEN Len(s)
                       ELSE (CHOOSE j \in stops : \A k \in stops : j <= k) - 1
             IN  <<SubSeq(s, lo, hi)>> \o SplitFrom(s, hi + 1)

Split(s) == SplitFrom(s, 1)

\* " ".join(tags)
RECURSIVE Join(_)
Join(tags) ==
    IF tags = <<>> THEN <<>>
    ELSE IF Len(tags) = 1 THEN tags[1]
    ELSE tags[1] \o <<SPACE>> \o Join(Tail(tags))

\* tok.startswith("#")
StartsWithHash(tok) == Len(tok) >= 1 /\ tok[1] = HASH

\* tok.lstrip("#")
RECURSIVE LStripHash(_)
LStripHash(tok) ==
    IF StartsWithHash(tok) THEN LStripHash(Tail(tok)) ELSE tok

\* if not tok.startswith("#"): tok = "#" + tok.lstrip("#")
EnsurePrefix(tok) ==
    IF ~StartsWithHash(tok) THEN <<HASH>> \o LStripHash(tok) ELSE tok

\* faulty variant: the body taken one character too far, tok[2:]
BodyFromThird(tok) == SubSeq(tok, 3, Len(tok))

\* head, body = tok[:1], tok[1:]
Head1(tok) == SubSeq(tok, 1, 1)
Body(tok) == SubSeq(tok, 2, Len(tok))

\* faulty variant: digits dropped as well, ch.isalpha() or ch == "_"
KeepCharNoDigits(ch) == (IsAlnum(ch) /\ ch \notin 48..57) \/ ch = UNDERSCORE

\* the filter of the comprehension: ch.isalnum() or ch == "_"
KeepChar(ch) == IsAlnum(ch) \/ ch = UNDERSCORE

\* "".join(ch for ch in body if ch.isalnum() or ch == "_")
SafeBody(body) == SelectSeq(body, KeepChar)

\* lines 126-131: a stripped, non-empty raw token to its cleaned form
CleanToken(tok) ==
    LET t == EnsurePrefix(tok)
    IN  Head1(t) \o SafeBody(Body(t))

\* str.lower() on the ASCII letters
Lower(s) == [i \in 1..Len(s) |-> IF s[i] \in 65..90 THEN s[i] + 32 ELSE s[i]]

\* faulty variant: no duplicate test, if len(tok) <= 1: continue
SkippedNoDedup(tok, sn) == Len(tok) <= 1

\* faulty variant: duplicates compared case-insensitively
SkippedFoldCase(tok, sn) == Len(tok) <= 1 \/ Lower(tok) \in {Lower(t) : t \in sn}

\* faulty variant: no test for the bare '#'
SkippedKeepBare(tok, sn) == tok \in sn

\* line 133: if len(tok) <= 1 or tok in seen: continue
Skipped(tok, sn) == Len(tok) <= 1 \/ tok \in sn

\* faulty variant: the loop stops one entry late, len(cleaned) > num
ShouldBreakLate(cl, n) == Len(cl) > n

\* line 137: if len(cleaned) >= num: break
ShouldBreak(cl, n) == Len(cl) >= n

\* faulty variant: cleaned.insert(0, tok)
AcceptFront(cl, tok) == <<tok>> \o cl

\* the accepting lines 135-136: seen.add(tok); cleaned.append(tok)
Accept(cl, tok) == Append(cl, tok)

\* One pass of the for body (lines 123-138) over one raw token:
\* the lists after it and whether the loop breaks.
LoopBody(token, cl, sn, n) ==
    LET tok0 == Strip(token)
    IN  IF tok0 = <<>>
        THEN [cleaned |-> cl, seen |-> sn, brk |-> FALSE]
        ELSE LET tok == CleanToken(tok0)
             IN  IF Skipped(tok, sn)
                 THEN [cleaned |-> cl, seen |-> sn, brk |-> FALSE]
                 ELSE [cleaned |-> Accept(cl, tok),
                       seen    |-> sn \cup {tok},
                       brk     |-> ShouldBreak(Accept(cl, tok), n)]

\* lines 113-140 as a function of the reply text and num
RECURSIVE NormalizeFrom(_, _, _, _, _)
NormalizeFrom(tokens, i, cl, sn, n) ==
    IF i > Len(tokens) THEN cl
    ELSE LET st == LoopBody(tokens[i], cl, sn, n)
         IN  IF st.brk THEN st.cleaned
             ELSE NormalizeFrom(tokens, i + 1, st.cleaned, st.seen, n)

Normalize(text, n) ==
    LET t == Strip(text)
    IN  IF t = <<>> THEN <<>>
        ELSE NormalizeFrom(Split(ReplaceNewlines(t)), 1, <<>>, {}, n)

---------------------------------------------------------------------------
(* Outcomes of Python calls, and the gateway's reply.                      *)

\* a Python call's outcome: a returned value, or an exception
Returned(v) == [state |-> "returned", value |-> v]
Raised(e) == [state |-> "raised", value |-> e]
NotCalled == [state |-> "none", value |-> 0]

\* an exception: its class and its message, as a list of pieces of text
Err(type, msg) == [type |-> type, msg |-> msg]
NoError == Err("", <<>>)

\* the name response: not bound yet, or a reply whose .text is None, is a
\* string, or cannot be read (the accessor raises ValueError)
Unbound == [state |-> "unbound", text |-> <<>>]
NoText == [state |-> "none", text |-> <<>>]
SomeText(s) == [state |-> "text", text |-> s]
Unreadable == [state |-> "unreadable", text |-> <<>>]

\* reading response.text
ResponseText(r) ==
    IF r.state = "unreadable"
    THEN Raised(Err("ValueError", <<"response.text: no valid part">>))
    ELSE Returned(r)

\* faulty variant: response.text.strip(), which raises on None
StrippedTextNoDefault(r) ==
    IF ResponseText(r).state = "raised" THEN ResponseText(r)
    ELSE IF r.state = "none"
    THEN Raised(Err("AttributeError", <<"'NoneType' object has no attribute 'strip'">>))
    ELSE Returned(Strip(r.text))

\* line 113: (response.text or "").strip(); None and "" both give ""
StrippedText(r) ==
    IF ResponseText(r).state = "raised" THEN ResponseText(r)
    ELSE Returned(Strip(IF r.state = "none" THEN <<>> ELSE r.text))

---------------------------------------------------------------------------
(* Prompt text: a list of pieces.  "{" and "}" are pieces of their own, as   *)
(* is each run of whitespace; every other piece is text without braces.      *)

IsBlankPiece(x) == x \in {" ", "\n"}

\* str.strip() on a list of pieces
StripPieces(s) ==
    LET keep == {i \in 1..Len(s) : ~IsBlankPiece(s[i])}
    IN  IF keep = {} THEN <<>>
        ELSE LET lo == CHOOSE i \in keep : \A j \in keep : i <= j
                 hi == CHOOSE i \in keep : \A j \in keep : j <= i
             IN  SubSeq(s, lo, hi)

\* a replacement field {name} of a format string
Field(name) == <<"{", name, "}">>

\* One step of str.format(**kw) on t from position i: the text up to the next
\* brace, and what that brace stands for.  "{{" and "}}" give one brace,
\* {name} is replaced by kw[name] (KeyError when there is none, IndexError
\* for {}), and a brace that opens or closes nothing is a ValueError (worded
\* by Python in more than one way for a "{" that is never closed).
FormatStep(t, i, kw) ==
    LET braces == {j \in i..Len(t) : t[j] \in {"{", "}"}}
        b == CHOOSE j \in braces : \A k \in braces : j <= k
        lit == SubSeq(t, i, b - 1)
        closes == {j \in (b + 1)..Len(t) : t[j] = "}"}
        close == CHOOSE c \in closes : \A d \in closes : c <= d
        name == SubSeq(t, b + 1, close - 1)
    IN  CASE braces = {} ->
               Returned([next |-> Len(t) + 1, text |-> SubSeq(t, i, Len(t))])
          [] braces /= {} /\ t[b] = "}" /\ b < Len(t) /\ t[b + 1] = "}" ->
               Returned([next |-> b + 2, text |-> Append(lit, "}")])
          [] braces /= {} /\ t[b] = "}" /\ ~(b < Len(t) /\ t[b + 1] = "}") ->
               Raised(Err("ValueError", <<"Single '}' encountered in format string">>))
          [] braces /= {} /\ t[b] = "{" /\ b = Len(t) ->
               Raised(Err("ValueError", <<"Single '{' encountered in format string">>))
          [] braces /= {} /\ t[b] = "{" /\ b < Len(t) /\ t[b + 1] = "{" ->
               Returned([next |-> b + 2, text |-> Append(lit, "{")])
          [] braces /= {} /\ t[b] = "{" /\ b < Len(t) /\ t[b + 1] /= "{"
                /\ closes = {} ->
               Raised(Err("ValueError", <<"unmatched '{'">>))
          [] braces /= {} /\ t[b] = "{" /\ b < Len(t) /\ t[b + 1] /= "{"
                /\ closes /= {} /\ (\E k \in 1..Len(name) : name[k] = "{") ->
               Raised(Err("ValueError", <<"unexpected '{' in field name">>))
          [] braces /= {} /\ t[b] = "{" /\ b < Len(t) /\ t[b + 1] /= "{"
                /\ closes /= {} /\ name = <<>> ->
               Raised(Err("IndexError", <<"Replacement index 0 out of range">>))
          [] braces /= {} /\ t[b] = "{" /\ b < Len(t) /\ t[b + 1] /= "{"
                /\ closes /= {} /\ Len(name) = 1 /\ name[1] \in DOMAIN kw ->
               Returned([next |-> close + 1, text |-> lit \o kw[name[1]]])
          [] OTHER -> Raised(Err("KeyError", name))

\* the outcome a of the steps so far, after one more step
FormatThen(a, t, kw) ==
    LET st == FormatStep(t, a.value.next, kw)
    IN  IF st.state = "raised" THEN st
        ELSE Returned([next |-> st.value.next,
                       text |-> a.value.text \o st.value.text])

\* up to 2^k more steps, stopping at the end of t or at the first error
RECURSIVE FormatSteps(_, _, _, _)
FormatSteps(k, a, t, kw) ==
    IF a.state = "raised" \/ a.value.next > Len(t) THEN a
    ELSE IF k = 0 THEN FormatThen(a, t, kw)
    ELSE FormatSteps(k - 1, FormatSteps(k - 1, a, t, kw), t, kw)

\* the least k with 2^k >= n
RECURSIVE Doublings(_)
Doublings(n) == IF n <= 1 THEN 0 ELSE 1 + Doublings((n + 1) \div 2)

\* t.format(**kw): a step takes at least one piece, so Len(t) steps reach
\* the end of t or an error
Format(t, kw) ==
    LET a == FormatSteps(Doublings(Len(t)), Returned([next |-> 1, text |-> <<>>]), t, kw)
    IN  IF a.state = "raised" THEN a ELSE Returned(a.value.text)

\* src/config.py BASE_PROMPT: the legacy template, with {num} and {seed}
BASE_PROMPT ==
    <<"You are an expert social media strategist. Given a user seed (keyword or existing hashtag),\ngenerate exactly ">>
    \o Field("num")
    \o <<" high-quality, trend-aware, brand-safe hashtags that would perform\nwell across platforms like Instagram, TikTok, LinkedIn, and X.\n\nGuidelines:\n- Make each hashtag short (1", "U+2013", "3 words combined), readable, and relevant to the seed.\n- Include a smart mix of broad and niche/long-tail hashtags for reach + intent.\n- Avoid duplicates, numbers, bulleting, and any banned/sensitive words.\n- Use only standard ASCII characters; no emojis.\n- Output as ONE single line, space-separated, each starting with '#'.\n- Output EXACTLY ">>
    \o Field("num")
    \o <<" hashtags and nothing else.\n\nSeed: \"">>
    \o Field("seed")
    \o <<"\"">>

---------------------------------------------------------------------------
(* get_api_key: the secrets store, then the environment.                   *)

CredentialName == "GEMINI_API_KEY"

\* a dict with no entry, and one with the credential set to v
EmptyDict == [k \in {} |-> ""]
WithCredential(v) == [k \in {CredentialName} |-> v]

\* d.get(k, default)
DictGetDefault(d, k, default) == IF k \in DOMAIN d THEN d[k] ELSE default

\* the secrets store: reading it raises (no secrets file), or it is a dict
\* with the credential absent, empty or set
SecretsStores ==
    {[raises |-> TRUE, entries |-> EmptyDict]}
    \cup {[raises |-> FALSE, entries |-> d] :
            d \in {EmptyDict, WithCredential(""), WithCredential("secret-key")}}

\* os.environ: the variable absent, empty or set
Environments == {EmptyDict, WithCredential(""), WithCredential("env-key")}

\* st.secrets.get("GEMINI_API_KEY", "")
SecretsGet(store) ==
    IF store.raises THEN Raised(Err("FileNotFoundError", <<"No secrets found">>))
    ELSE Returned(DictGetDefault(store.entries, CredentialName, ""))

\* faulty variant: an empty secrets value is returned as it is
get_api_key_no_fallback(store, env) ==
    LET got == SecretsGet(store)
    IN  IF got.state = "raised"
        THEN Returned(DictGetDefault(env, CredentialName, ""))
        ELSE Returned(got.value)

\* lines 13-27
get_api_key(store, env) ==
    LET got == SecretsGet(store)
        key == IF got.state = "raised"
               THEN DictGetDefault(env, CredentialName, "")
               ELSE got.value
    IN  IF key = ""
        THEN Returned(DictGetDefault(env, CredentialName, ""))
        ELSE Returned(key)

---------------------------------------------------------------------------
(* generate_hashtags, step by step.                                        *)

\* the reply texts the gateway is given to return
Texts == Strings(Alphabet, MaxLen) \cup Strings(CoreAlphabet, MaxCoreLen)
Responses == {SomeText(s) : s \in Texts} \cup {NoText, Unreadable}

\* the exceptions generate_content is given to raise
GatewayFailures == {"DeadlineExceeded", "ResourceExhausted"}

\* lines 99-101
MissingKeyError ==
    Err("RuntimeError",
        <<"Missing ", "GEMINI_API_KEY", ". Set it in environment or Streamlit secrets.">>)

\* line 111: RuntimeError(f"Gemini API error: {exc}")
GatewayError(exc) == Err("RuntimeError", <<"Gemini API error: ", exc>>)

InitGen ==
    /\ pc = "idle"
    /\ api_key = ""
    /\ configured = FALSE
    /\ seed = <<>>
    /\ num = 0
    /\ prompt_template = <<>>
    /\ prompt = <<>>
    /\ sent = <<>>
    /\ response = Unbound
    /\ raw_tokens = <<>>
    /\ idx = 0
    /\ cleaned = <<>>
    /\ seen = {}
    /\ result = <<>>
    /\ error = NoError

\* faulty variant: no test of the key
HasKeyAlways(key) == TRUE

\* line 98: if not api_key, negated
HasKey(key) == key /= ""

\* line 106: prompt_template.format(seed=seed.strip(), num=int(num))
FormatPrompt(tmpl, sd, n) ==
    Format(tmpl, [seed |-> StripPieces(sd), num |-> <<ToString(n)>>])

\* lines 97-106: generate_hashtags(sd, n, tmpl) up to the gateway call: the
\* credential check, genai.configure, the prompt
Call(sd, n, tmpl) ==
    /\ pc = "idle"
    /\ seed' = sd
    /\ num' = n
    /\ prompt_template' = tmpl
    /\ LET key == get_api_key(secrets, environ)
           fmt == FormatPrompt(tmpl, sd, n)
       IN  /\ api_key' = key.value
           /\ IF ~HasKey(key.value)
              THEN /\ pc' = "raised"
                   /\ error' = MissingKeyError
                   /\ UNCHANGED <<configured, prompt>>
              ELSE /\ configured' = TRUE
                   /\ IF fmt.state = "raised"
                      THEN pc' = "raised" /\ error' = fmt.value /\ prompt' = prompt
                      ELSE pc' = "calling" /\ error' = error /\ prompt' = fmt.value
    /\ UNCHANGED <<secrets, environ, sent, response, raw_tokens, idx, cleaned,
                   seen, result>>

\* faulty variant: the failed call is tried once more before the error is raised
GatewayRaisesRetry(exc) ==
    /\ pc = "calling"
    /\ sent' = Append(sent, prompt)
    /\ IF Len(sent) = 0
       THEN pc' = "calling" /\ error' = error
       ELSE pc' = "raised" /\ error' = GatewayError(exc)
    /\ UNCHANGED <<secrets, environ, api_key, configured, seed, num,
                   prompt_template, prompt, response, raw_tokens, idx, cleaned,
                   seen, result>>

\* lines 108-111: generate_content(prompt) raises exc
GatewayRaises(exc) ==
    /\ pc = "calling"
    /\ sent' = Append(sent, prompt)
    /\ pc' = "raised"
    /\ error' = GatewayError(exc)
    /\ UNCHANGED <<secrets, environ, api_key, configured, seed, num,
                   prompt_template, prompt, response, raw_tokens, idx, cleaned,
                   seen, result>>

\* faulty variant: seen is not made anew (a set kept across invocations)
GatewayReturnsKeepSeen(r) ==
    /\ sent' = Append(sent, prompt)
    /\ response' = r
    /\ LET text == StrippedText(r)
       IN  IF text.state = "raised"
           THEN /\ pc' = "raised"
                /\ error' = text.value
                /\ UNCHANGED <<result, raw_tokens>>
           ELSE IF text.value = <<>>
           THEN /\ pc' = "returned"
                /\ result' = <<>>
                /\ UNCHANGED <<error, raw_tokens>>
           ELSE /\ pc' = "loop"
                /\ raw_tokens' = Split(ReplaceNewlines(text.value))
                /\ UNCHANGED <<error, result>>
    /\ idx' = 0
    /\ cleaned' = <<>>
    /\ seen' = seen
    /\ UNCHANGED <<secrets, environ, api_key, configured, seed, num,
                   prompt_template, prompt>>

\* lines 109, 113-120: generate_content(prompt) returns r; strip, early
\* return or split
GatewayReturns(r) ==
    /\ sent' = Append(sent, prompt)
    /\ response' = r
    /\ LET text == StrippedText(r)
       IN  IF text.state = "raised"
           THEN /\ pc' = "raised"
                /\ error' = text.value
                /\ UNCHANGED <<result, raw_tokens>>
           ELSE IF text.value = <<>>
           THEN /\ pc' = "returned"
                /\ result' = <<>>
                /\ UNCHANGED <<error, raw_tokens>>
           ELSE /\ pc' = "loop"
                /\ raw_tokens' = Split(ReplaceNewlines(text.value))
                /\ UNCHANGED <<error, result>>
    /\ idx' = 0
    /\ cleaned' = <<>>
    /\ seen' = {}
    /\ UNCHANGED <<secrets, environ, api_key, configured, seed, num,
                   prompt_template, prompt>>

\* lines 122-138: one iteration of the for loop, over the next raw token
LoopStep ==
    /\ pc = "loop"
    /\ idx < Len(raw_tokens)
    /\ LET st == LoopBody(raw_tokens[idx + 1], cleaned, seen, num)
       IN  /\ cleaned' = st.cleaned
           /\ seen' = st.seen
           /\ IF st.brk
              THEN pc' = "returned" /\ result' = st.cleaned
              ELSE pc' = "loop" /\ result' = result
    /\ idx' = idx + 1
    /\ UNCHANGED <<secrets, environ, api_key, configured, seed, num,
                   prompt_template, prompt, sent, response, raw_tokens, error>>

\* line 140: the loop ran out of tokens; return cleaned
LoopExit ==
    /\ pc = "loop"
    /\ idx = Len(raw_tokens)
    /\ pc' = "returned"
    /\ result' = cleaned
    /\ UNCHANGED <<secrets, environ, api_key, configured, seed, num,
                   prompt_template, prompt, sent, response, raw_tokens, idx,
                   cleaned, seen, error>>

\* lines 101, 111, 115, 140: the invocation is over; the caller has the list
\* or the error and may call again.  The locals of the invocation are left
\* as they are: the next invocation has to make its own.
Return ==
    /\ pc \in {"returned", "raised"}
    /\ history' = Append(history,
                         [seed |-> seed, num |-> num,
                          prompt_template |-> prompt_template,
                          api_key |-> api_key,
                          reply |-> IF pc = "returned" THEN response ELSE Unbound,
                          outcome |-> IF pc = "returned" THEN Returned(result)
                                      ELSE Raised(error)])
    /\ pc' = "idle"
    /\ error' = NoError
    /\ UNCHANGED <<secrets, environ, api_key, configured, seed, num,
                   prompt_template, prompt, sent, response, raw_tokens, idx,
                   cleaned, seen, result>>

---------------------------------------------------------------------------
(* The platform and category tables, and the lookups.                      *)

\* src/config.py lines 7-33, as the module is imported
PLATFORM_CONFIG ==
    [Instagram |->
        [optimal_count |-> <<8, 12>>,
         style |-> "Mix of popular and niche hashtags for community engagement",
         requirements |-> "Focus on lifestyle, visual appeal, and community building. Include trending and evergreen hashtags."],
     TikTok |->
        [optimal_count |-> <<5, 8>>,
         style |-> "Trending and viral format hashtags",
         requirements |-> "Emphasize trending challenges, viral content, and short catchy phrases. Include dance, music, and trend-related tags."],
     LinkedIn |->
        [optimal_count |-> <<3, 5>>,
         style |-> "Professional and industry-specific hashtags",
         requirements |-> "Focus on professional development, industry insights, and thought leadership. Avoid casual or entertainment hashtags."],
     Twitter |->
        [optimal_count |-> <<1, 3>>,
         style |-> "Concise and trending topic hashtags",
         requirements |-> "Keep it minimal and news-worthy. Focus on current events, conversations, and trending topics."],
     YouTube |->
        [optimal_count |-> <<5, 10>>,
         style |-> "Searchable keyword hashtags",
         requirements |-> "Optimize for search discovery. Include descriptive, educational, and how-to related hashtags."]]

\* src/config.py lines 36-45
CATEGORY_KEYWORDS ==
    [Business |-> <<"entrepreneur", "startup", "leadership", "productivity", "business", "marketing", "sales", "growth">>,
     Lifestyle |-> <<"dailylife", "inspiration", "wellness", "mindfulness", "lifestyle", "motivation", "selfcare", "happiness">>,
     Technology |-> <<"tech", "innovation", "AI", "digital", "software", "coding", "programming", "future">>,
     Travel |-> <<"wanderlust", "adventure", "explore", "destination", "travel", "vacation", "journey", "discover">>,
     Food |-> <<"foodie", "recipe", "cooking", "delicious", "cuisine", "chef", "homemade", "tasty">>,
     Fitness |-> <<"workout", "health", "motivation", "fitlife", "training", "gym", "exercise", "wellness">>,
     Education |-> <<"learning", "knowledge", "skills", "growth", "study", "education", "teaching", "development">>,
     Entertainment |-> <<"fun", "trending", "viral", "creative", "content", "entertainment", "comedy", "music">>]

\* the platform names a caller may pass: the catalog and one name outside it
PlatformNames == DOMAIN PLATFORM_CONFIG \cup {"Facebook"}

\* the category names a caller may pass: the catalog and one name outside it
CategoryNames == DOMAIN CATEGORY_KEYWORDS \cup {"Gaming"}

InitTables ==
    /\ platform_config = PLATFORM_CONFIG
    /\ category_keywords = CATEGORY_KEYWORDS

\* d[k] of a dict: KeyError when k is no key
DictGet(d, k) ==
    IF k \in DOMAIN d THEN Returned(d[k]) ELSE Raised(Err("KeyError", <<k>>))

\* d.get(k, d[dk]): the default d[dk] is evaluated before the call
DictGetOr(d, k, dk) ==
    LET default == DictGet(d, dk)
    IN  IF default.state = "raised" THEN default
        ELSE Returned(DictGetDefault(d, k, default.value))

\* faulty variant: PLATFORM_CONFIG[platform], with no default
get_platform_info_no_default(p) == DictGet(platform_config, p)

\* src/hashtag_generator.py lines 143-153
get_platform_info(p) == DictGetOr(platform_config, p, "Instagram")

\* src/hashtag_generator.py lines 156-166
get_category_keywords(c) == Returned(DictGetDefault(category_keywords, c, <<>>))

\* sep.join(items), as pieces of text
RECURSIVE JoinWith(_, _)
JoinWith(sep, items) ==
    IF items = <<>> THEN <<>>
    ELSE IF Len(items) = 1 THEN <<items[1]>>
    ELSE <<items[1], sep>> \o JoinWith(sep, Tail(items))

\* src/enhanced_prompts.py lines 103-109: the local dict requirements, whose
\* five texts are those of PLATFORM_CONFIG
requirements == [p \in DOMAIN PLATFORM_CONFIG |-> PLATFORM_CONFIG[p].requirements]

\* src/enhanced_prompts.py lines 115-124: the local dict keywords, whose
\* eight texts are the lists of CATEGORY_KEYWORDS joined by ", "
keywords == [c \in DOMAIN CATEGORY_KEYWORDS |-> JoinWith(", ", CATEGORY_KEYWORDS[c])]

\* src/enhanced_prompts.py lines 101-110
_get_platform_requirements(p) == DictGetOr(requirements, p, "Instagram")

\* src/enhanced_prompts.py lines 113-125
_get_category_keywords(c) == DictGetOr(keywords, c, "Business")

---------------------------------------------------------------------------
(* The prompt template and get_enhanced_prompt.                            *)

\* texts of ENHANCED_PROMPT (src/config.py lines 48-72) between its fields
RoleIntro == "\nYou are an expert social media strategist specializing in "
RequirementsHeader == " niche.\n\nPlatform-specific requirements for "
CategoryHeader == "\n\nCategory focus: "
KeywordsHeader == "\nInclude relevant terms like: "
ContentLabel == "\n\nContent: "
Quote == "\""
ExactlyDirective == "- Output as ONE single line, space-separated, each starting with '#'\n- Output EXACTLY "
\* the en dash of "1-3 words", by its code point
EnDash == "U+2013"

ENHANCED_PROMPT ==
    <<RoleIntro>> \o Field("platform")
    \o <<" content.\nGiven the following content from ">> \o Field("source_type")
    \o <<", generate exactly ">> \o Field("num")
    \o <<" high-quality, \ntrend-aware, brand-safe hashtags optimized for ">>
    \o Field("platform") \o <<" in the ">> \o Field("category")
    \o <<RequirementsHeader>> \o Field("platform") \o <<":\n">>
    \o Field("platform_requirements")
    \o <<CategoryHeader>> \o Field("category")
    \o <<KeywordsHeader>> \o Field("category_keywords")
    \o <<ContentLabel, Quote>> \o Field("content") \o <<Quote>>
    \o <<"\n\nGuidelines:\n- Optimize for ">> \o Field("platform")
    \o <<" algorithm and user behavior\n- Include ">> \o Field("category")
    \o <<"-specific terminology\n- Mix broad reach and niche targeting hashtags\n- Make hashtags short (1",
         EnDash,
         "3 words), readable, and relevant\n- Avoid duplicates, numbers, and banned/sensitive words\n- Use only standard ASCII characters; no emojis\n",
         ExactlyDirective>>
    \o Field("num")
    \o <<" hashtags and nothing else\n\nGenerate ">> \o Field("num")
    \o <<" hashtags:\n">>

\* faulty variant: the content moved up, right after the role statement
ENHANCED_PROMPT_CONTENT_FIRST ==
    <<RoleIntro>> \o Field("platform")
    \o <<" content.\nGiven the following content from ">> \o Field("source_type")
    \o <<", generate exactly ">> \o Field("num")
    \o <<" high-quality, \ntrend-aware, brand-safe hashtags optimized for ">>
    \o Field("platform") \o <<" in the ">> \o Field("category") \o <<" niche.">>
    \o <<ContentLabel, Quote>> \o Field("content") \o <<Quote>>
    \o <<"\n\nPlatform-specific requirements for ">> \o Field("platform") \o <<":\n">>
    \o Field("platform_requirements")
    \o <<CategoryHeader>> \o Field("category")
    \o <<KeywordsHeader>> \o Field("category_keywords")
    \o <<"\n\nGuidelines:\n", ExactlyDirective>> \o Field("num")
    \o <<" hashtags and nothing else\n">>

\* the body of get_enhanced_prompt over a given template
EnhancedPromptOver(template, content, p, category, n, source_type) ==
    LET platform_info == DictGetOr(platform_config, p, "Instagram")
        kw_list == DictGetDefault(category_keywords, category, <<>>)
    IN  IF platform_info.state = "raised" THEN platform_info
        ELSE Format(template,
                    [platform |-> <<p>>,
                     source_type |-> <<source_type>>,
                     num |-> <<ToString(n)>>,
                     category |-> <<category>>,
                     platform_requirements |-> <<platform_info.value.requirements>>,
                     category_keywords |-> JoinWith(", ", kw_list),
                     content |-> content])

\* faulty variant: the text built by the call before is handed out again
get_enhanced_prompt_cached(content, p, category, n, source_type) ==
    IF last.fn = "get_enhanced_prompt" THEN last.out
    ELSE EnhancedPromptOver(ENHANCED_PROMPT, content, p, category, n, source_type)

\* faulty variant: the template with the content moved up
get_enhanced_prompt_content_first(content, p, category, n, source_type) ==
    EnhancedPromptOver(ENHANCED_PROMPT_CONTENT_FIRST, content, p, category, n, source_type)

\* src/hashtag_generator.py lines 30-55
get_enhanced_prompt(content, p, category, n, source_type) ==
    EnhancedPromptOver(ENHANCED_PROMPT, content, p, category, n, source_type)

\* the last call of a lookup or of the prompt builder, and its outcome
NoCall == [fn |-> "", args |-> <<>>, out |-> NotCalled]
TheCall(fn, args, out) == [fn |-> fn, args |-> args, out |-> out]

\* the arguments of a call get_enhanced_prompt(content, p, category, n, source_type)
Args(content, p, category, n, source_type) ==
    [content |-> content, platform |-> p, category |-> category, num |-> n,
     source_type |-> source_type]

InitPromptIdle ==
    /\ prompt_args = Args(<<>>, "Instagram", "Business", 0, "manual input")
    /\ last = NoCall
    /\ first = NoCall
    /\ between = FALSE

\* faulty variant: CATEGORY_KEYWORDS.setdefault(category, []) for the
\* keywords, which enters an unlisted category in the table
BuildPromptSetDefault(content, p, category, n, source_type) ==
    /\ prompt_args' = Args(content, p, category, n, source_type)
    /\ last' = TheCall("get_enhanced_prompt", prompt_args',
                       get_enhanced_prompt(content, p, category, n, source_type))
    /\ category_keywords' =
           [k \in DOMAIN category_keywords \cup {category} |->
               IF k \in DOMAIN category_keywords THEN category_keywords[k] ELSE <<>>]
    /\ platform_config' = platform_config

\* a call get_enhanced_prompt(content, p, category, n, source_type)
BuildPrompt(content, p, category, n, source_type) ==
    /\ prompt_args' = Args(content, p, category, n, source_type)
    /\ last' = TheCall("get_enhanced_prompt", prompt_args',
                       get_enhanced_prompt(content, p, category, n, source_type))
    /\ UNCHANGED tabVars

\* a call get_platform_info(p)
LookupPlatform(p) ==
    /\ last' = TheCall("get_platform_info", p, get_platform_info(p))
    /\ UNCHANGED <<tabVars, prompt_args>>

\* a call get_category_keywords(c)
LookupCategory(c) ==
    /\ last' = TheCall("get_category_keywords", c, get_category_keywords(c))
    /\ UNCHANGED <<tabVars, prompt_args>>

\* a call _get_platform_requirements(p) of enhanced_prompts.py
LookupRequirements(p) ==
    /\ last' = TheCall("_get_platform_requirements", p, _get_platform_requirements(p))
    /\ UNCHANGED <<tabVars, prompt_args>>

\* a call _get_category_keywords(c) of enhanced_prompts.py
LookupKeywords(c) ==
    /\ last' = TheCall("_get_category_keywords", c, _get_category_keywords(c))
    /\ UNCHANGED <<tabVars, prompt_args>>

---------------------------------------------------------------------------
(* adjust_count_for_platform.                                              *)

\* faulty variant: the two bounds returned the wrong way round
adjust_count_swapped(p, c) ==
    IF p \notin DOMAIN platform_config
    THEN Returned(c)
    ELSE LET min_count == platform_config[p].optimal_count[1]
             max_count == platform_config[p].optimal_count[2]
         IN  IF min_count <= c /\ c <= max_count THEN Returned(c)
             ELSE IF c < min_count THEN Returned(max_count)
             ELSE Returned(min_count)

\* faulty variant: no membership test before PLATFORM_CONFIG[platform]
adjust_count_no_guard(p, c) ==
    LET entry == DictGet(platform_config, p)
    IN  IF entry.state = "raised" THEN entry
        ELSE LET min_count == entry.value.optimal_count[1]
                 max_count == entry.value.optimal_count[2]
             IN  IF min_count <= c /\ c <= max_count THEN Returned(c)
                 ELSE IF c < min_count THEN Returned(min_count)
                 ELSE Returned(max_count)

\* lines 58-82
adjust_count_for_platform(p, c) ==
    IF p \notin DOMAIN platform_config
    THEN Returned(c)
    ELSE LET entry == DictGet(platform_config, p)
         IN  IF entry.state = "raised" THEN entry
             ELSE LET min_count == entry.value.optimal_count[1]
                      max_count == entry.value.optimal_count[2]
                  IN  IF min_count <= c /\ c <= max_count THEN Returned(c)
                      ELSE IF c < min_count THEN Returned(min_count)
                      ELSE Returned(max_count)

InitAdjIdle ==
    /\ platform = "Instagram"
    /\ user_count = 0
    /\ adjusted = NotCalled

\* a call adjust_count_for_platform(p, c)
AdjustCount(p, c) ==
    /\ platform' = p
    /\ user_count' = c
    /\ adjusted' = adjust_count_for_platform(p, c)
    /\ UNCHANGED tabVars

\* the tip of a run that shows none
NoTip == [state |-> "none", value |-> <<>>]

\* faulty variant: the tip is shown only for a count that was raised
platform_tip_raised_only(p, uc) ==
    LET optimal_count == adjust_count_for_platform(p, uc)
    IN  IF optimal_count.state = "raised" THEN optimal_count
        ELSE IF optimal_count.value > uc
        THEN LET entry == DictGet(platform_config, p)
             IN  IF entry.state = "raised" THEN entry
                 ELSE Returned(entry.value.optimal_count)
        ELSE NoTip

\* src/app.py lines 493-496 (src/ui_components.py lines 409-412): the tip
\* with the platform's range, shown when the adjusted count differs
platform_tip(p, uc) ==
    LET optimal_count == adjust_count_for_platform(p, uc)
    IN  IF optimal_count.state = "raised" THEN optimal_count
        ELSE IF optimal_count.value /= uc
        THEN LET entry == DictGet(platform_config, p)
             IN  IF entry.state = "raised" THEN entry
                 ELSE Returned(entry.value.optimal_count)
        ELSE NoTip

---------------------------------------------------------------------------
(* extract_content_from_url (src/content_extractor.py, duplicated in       *)
(* src/app.py).  A URL is a sequence of code points; urlparse is the       *)
(* urllib.parse of Python 3.11, by what it does to the scheme and the      *)
(* netloc.                                                                 *)

\* the index of the first character of s, from index lo on, that is in
\* chars; 0 when there is none
FindFrom(s, lo, chars) ==
    LET hits == {i \in lo..Len(s) : s[i] \in chars}
    IN  IF hits = {} THEN 0 ELSE CHOOSE i \in hits : \A k \in hits : i <= k

\* url.lstrip of the C0 control characters and the space
LStripControl(s) ==
    LET keep == {i \in 1..Len(s) : s[i] > 32}
    IN  IF keep = {} THEN <<>>
        ELSE SubSeq(s, CHOOSE i \in keep : \A k \in keep : i <= k, Len(s))

\* tab, carriage return and newline are removed wherever they are
RemoveUnsafe(s) == SelectSeq(s, LAMBDA ch : ch \notin {9, 10, 13})

\* the characters of a scheme: ASCII letters, digits, '+', '-', '.'
IsSchemeChar(ch) == IsAsciiAlnum(ch) \/ ch \in {43, 45, 46}

IsAsciiAlpha(ch) == ch \in 65..90 \/ ch \in 97..122

HasChar(s, ch) == \E i \in 1..Len(s) : s[i] = ch

\* the bracketed hosts that are IPv6 addresses, among those the URLs of
\* the model can spell: "::"
BracketedHosts == {<<58, 58>>}

\* urlparse(url), as far as the scheme and the netloc: a ValueError for
\* unmatched brackets or a bracketed host that is no address
urlparse(u) ==
    LET url0 == RemoveUnsafe(LStripControl(u))
        i == FindFrom(url0, 1, {58})
        has_scheme == /\ i > 1
                      /\ IsAsciiAlpha(url0[1])
                      /\ \A k \in 1..(i - 1) : IsSchemeChar(url0[k])
        scheme == IF has_scheme THEN Lower(SubSeq(url0, 1, i - 1)) ELSE <<>>
        rest == IF has_scheme THEN SubSeq(url0, i + 1, Len(url0)) ELSE url0
        has_netloc == Len(rest) >= 2 /\ rest[1] = 47 /\ rest[2] = 47
        delim == FindFrom(rest, 3, {47, 63, 35})
        netloc == IF ~has_netloc THEN <<>>
                  ELSE SubSeq(rest, 3, IF delim = 0 THEN Len(rest) ELSE delim - 1)
        open == FindFrom(netloc, 1, {91})
        close == FindFrom(netloc, open + 1, {93})
    IN  IF HasChar(netloc, 91) /= HasChar(netloc, 93)
        THEN Raised(Err("ValueError", <<"Invalid IPv6 URL">>))
        ELSE IF HasChar(netloc, 91)
                /\ SubSeq(netloc, open + 1, IF close = 0 THEN Len(netloc) ELSE close - 1)
                      \notin BracketedHosts
        THEN Raised(Err("ValueError", <<"does not appear to be an IPv4 or IPv6 address">>))
        ELSE Returned([scheme |-> scheme, netloc |-> netloc])

\* "http://" and "https://"
HttpPrefix == <<104, 116, 116, 112, 58, 47, 47>>
HttpsPrefix == <<104, 116, 116, 112, 115, 58, 47, 47>>

StartsWith(s, prefix) ==
    Len(s) >= Len(prefix) /\ SubSeq(s, 1, Len(prefix)) = prefix

\* lines 29-30: 'https://' is put in front of a URL that starts with neither
WithScheme(u) ==
    IF StartsWith(u, HttpPrefix) \/ StartsWith(u, HttpsPrefix) THEN u
    ELSE HttpsPrefix \o u

\* the dict of line 26, and those of lines 91 and 93
ErrorDict(msg) == [error |-> msg]
InvalidUrl == ErrorDict(<<"Invalid URL format">>)
FetchFailed(msg) == ErrorDict(<<"Failed to fetch URL: ">> \o msg)
ProcessingFailed(msg) == ErrorDict(<<"Error processing content: ">> \o msg)

\* faulty variant: the scheme is added before the URL is validated
Validate_prefix_first(u) ==
    LET parsed == urlparse(WithScheme(u))
    IN  IF parsed.state = "raised" THEN Returned(ProcessingFailed(parsed.value.msg))
        ELSE IF parsed.value.scheme = <<>> \/ parsed.value.netloc = <<>>
        THEN Returned(InvalidUrl)
        ELSE [state |-> "fetching", value |-> WithScheme(u)]

\* lines 22-30, 92-93: the URL is parsed and validated; what goes on to
\* requests.get is the URL with its scheme
Validate(u) ==
    LET parsed == urlparse(u)
    IN  IF parsed.state = "raised" THEN Returned(ProcessingFailed(parsed.value.msg))
        ELSE IF parsed.value.scheme = <<>> \/ parsed.value.netloc = <<>>
        THEN Returned(InvalidUrl)
        ELSE [state |-> "fetching", value |-> WithScheme(u)]

\* a page as html.parser sees it: the stripped texts of the title and of
\* the description, and the headings and paragraphs by name and length
Page(title, description, headings, paragraphs) ==
    [title |-> title, description |-> description, headings |-> headings,
     paragraphs |-> paragraphs]
Text(name, len) == [text |-> name, len |-> len]

FirstUpTo(q, n) == SubSeq(q, 1, IF Len(q) < n THEN Len(q) ELSE n)

RECURSIVE TotalLen(_)
TotalLen(q) == IF q = <<>> THEN 0 ELSE q[1].len + TotalLen(Tail(q))

Names(q) == [i \in 1..Len(q) |-> q[i].text]

\* lines 52-66: headings under 200 characters; the first three paragraphs
\* over 50
KeptHeadings(page) == SelectSeq(page.headings, LAMBDA h : h.len > 0 /\ h.len < 200)
KeptParagraphs(page) == FirstUpTo(SelectSeq(page.paragraphs, LAMBDA q : q.len > 50), 3)

\* a part of the content: its label, the texts in it, and whether [:500]
\* cut the text short
Part(label, texts, cut) == [part |-> label, texts |-> texts, cut |-> cut]

\* lines 68-81: the parts of the content, which ' | ' joins; line 78 cuts
\* ' '.join(paragraphs) at 500 characters
ContentParts(page) ==
    (IF page.title /= "" THEN <<Part("Title: ", <<page.title>>, FALSE)>> ELSE <<>>)
    \o (IF page.description /= ""
        THEN <<Part("Description: ", <<page.description>>, FALSE)>> ELSE <<>>)
    \o (IF KeptHeadings(page) /= <<>>
        THEN <<Part("Key topics: ", Names(FirstUpTo(KeptHeadings(page), 3)), FALSE)>>
        ELSE <<>>)
    \o (IF KeptParagraphs(page) /= <<>>
        THEN <<Part("Content: ", Names(KeptParagraphs(page)),
                    TotalLen(KeptParagraphs(page)) + Len(KeptParagraphs(page)) - 1 > 500)>>
        ELSE <<>>)

\* lines 83-88
ContentDict(page, u) ==
    [content |-> ContentParts(page), title |-> page.title,
     description |-> page.description, url |-> u]

InitUrlIdle ==
    /\ fetched = <<>>
    /\ extracted = NotCalled

\* lines 22-36: extract_content_from_url(url) up to requests.get
ExtractCall ==
    /\ extracted.state = "none"
    /\ extracted' = Validate(url)
    /\ fetched' = IF extracted'.state = "fetching"
                  THEN Append(fetched, extracted'.value) ELSE fetched
    /\ url' = url

\* lines 36-37, 90-93: requests.get or raise_for_status raises
FetchRaises(e) ==
    /\ extracted.state = "fetching"
    /\ extracted' = IF e.request_exception THEN Returned(FetchFailed(e.msg))
                    ELSE Returned(ProcessingFailed(e.msg))
    /\ UNCHANGED <<url, fetched>>

\* lines 40, 92-93: the parser raises on the page
ParseRaises(e) ==
    /\ extracted.state = "fetching"
    /\ extracted' = Returned(ProcessingFailed(e.msg))
    /\ UNCHANGED <<url, fetched>>

\* lines 36-88: the page came and was parsed
FetchReturns(page) ==
    /\ extracted.state = "fetching"
    /\ extracted' = Returned(ContentDict(page, extracted.value))
    /\ UNCHANGED <<url, fetched>>

---------------------------------------------------------------------------
(* main of src/app.py: one run of the script with the button pressed.      *)

InitMainIdle ==
    /\ notice = ""
    /\ shown_error = NoError
    /\ generated_hashtags = <<>>
    /\ hashtags_text = <<>>
    /\ tip = NoTip

\* lines 493-496, 503-512: the count is adjusted and the tip shown (an
\* exception there ends the run); blank content gets the warning;
\* otherwise the prompt is built and generate_hashtags is called with the
\* content, the adjusted count and the built prompt
MainClick(content, p, category, uc, source_type) ==
    /\ pc = "idle"
    /\ notice = ""
    /\ AdjustCount(p, uc)
    /\ tip' = platform_tip(p, uc)
    /\ IF tip'.state = "raised"
       THEN /\ notice' = "exception"
            /\ UNCHANGED <<genVars, prompt_args, last>>
       ELSE IF StripPieces(content) = <<>>
       THEN /\ notice' = "warning"
            /\ UNCHANGED <<genVars, prompt_args, last>>
       ELSE /\ BuildPrompt(content, p, category, adjusted'.value, source_type)
            /\ IF last'.out.state = "raised"
               THEN /\ pc' = "raised"
                    /\ error' = last'.out.value
                    /\ UNCHANGED <<secrets, environ, api_key, configured, seed,
                                   num, prompt_template, prompt, sent, response,
                                   raw_tokens, idx, cleaned, seen, result>>
               ELSE Call(content, adjusted'.value, last'.out.value)
            /\ notice' = notice
    /\ UNCHANGED <<shown_error, generated_hashtags, hashtags_text>>

\* faulty variant: the outcome is stored whether or not there are tags
MainFinishStoreAlways ==
    /\ pc \in {"returned", "raised"}
    /\ LET tags == IF pc = "returned" THEN result ELSE <<>>
       IN  /\ shown_error' = IF pc = "raised" THEN error ELSE shown_error
           /\ generated_hashtags' = tags
           /\ hashtags_text' = Join(tags)
           /\ notice' = IF tags /= <<>> THEN "success" ELSE "info"
    /\ pc' = "done"
    /\ tip' = tip
    /\ UNCHANGED <<secrets, environ, api_key, configured, seed, num,
                   prompt_template, prompt, sent, response, raw_tokens, idx,
                   cleaned, seen, result, error>>

\* lines 513-526: the error is shown and tags = []; tags are stored when
\* there are any
MainFinish ==
    /\ pc \in {"returned", "raised"}
    /\ LET tags == IF pc = "returned" THEN result ELSE <<>>
       IN  /\ shown_error' = IF pc = "raised" THEN error ELSE shown_error
           /\ IF tags /= <<>>
              THEN /\ generated_hashtags' = tags
                   /\ hashtags_text' = Join(tags)
                   /\ notice' = "success"
              ELSE /\ notice' = "info"
                   /\ UNCHANGED <<generated_hashtags, hashtags_text>>
    /\ pc' = "done"
    /\ tip' = tip
    /\ UNCHANGED <<secrets, environ, api_key, configured, seed, num,
                   prompt_template, prompt, sent, response, raw_tokens, idx,
                   cleaned, seen, result, error>>

\* line 417: the script runs again for the next interaction: what the last
\* run showed is gone, st.session_state stays
MainRerun ==
    /\ pc = "done" \/ notice \in {"warning", "exception"}
    /\ pc' = "idle"
    /\ notice' = ""
    /\ shown_error' = NoError
    /\ error' = NoError
    /\ UNCHANGED <<secrets, environ, api_key, configured, seed, num,
                   prompt_template, prompt, sent, response, raw_tokens, idx,
                   cleaned, seen, result, generated_hashtags, hashtags_text, tip>>

---------------------------------------------------------------------------
(* The wizard of src/ui_components.py.  st.session_state is a dict; a run  *)
(* of the script renders the step that wizard_step names, with the values  *)
(* of the widgets and the button pressed as its inputs; st.rerun() ends    *)
(* the run and the script runs again with nothing pressed.                 *)

\* d.update(upd) and the dict without some keys
SetItems(d, upd) ==
    [k \in DOMAIN d \cup DOMAIN upd |-> IF k \in DOMAIN upd THEN upd[k] ELSE d[k]]
DelItems(d, keys) == [k \in DOMAIN d \ keys |-> d[k]]

\* the step the script renders: wizard_step, the first step when unset
current_step(d) == DictGetDefault(d, "wizard_step", 1)

\* what a run left on the screen: the step, whether Next was enabled,
\* whether Generate was offered, the message, the tip, and whether
\* st.rerun() ended the run
Screen(step, can_proceed, show_generate, message, tipv, rerun) ==
    [step |-> step, can_proceed |-> can_proceed, show_generate |-> show_generate,
     message |-> message, tip |-> tipv, rerun |-> rerun]

\* the widgets of step 1: the method, the text typed, the URL typed and
\* what extract_content_from_url gave for it
ManualInput(text) ==
    [method |-> "manual", text |-> text, url |-> <<>>, extracted |-> EmptyDict]
UrlInput(u, dict) ==
    [method |-> "url", text |-> <<>>, url |-> u, extracted |-> dict]

\* line 81: one part of the content as text
PartText(part) ==
    <<part.part>>
    \o JoinWith(IF part.part = "Key topics: " THEN ", " ELSE " ", part.texts)
    \o (IF part.cut THEN <<"[:500]">> ELSE <<>>)
    \o (IF part.part = "Content: " THEN <<"...">> ELSE <<>>)

\* line 81: ' | '.join(content_parts)
RECURSIVE ContentText(_)
ContentText(parts) ==
    IF parts = <<>> THEN <<>>
    ELSE IF Len(parts) = 1 THEN PartText(parts[1])
    ELSE PartText(parts[1]) \o <<" | ">> \o ContentText(Tail(parts))

\* lines 309-348: the content and its source type
Step1Content(input) ==
    IF input.method = "manual"
    THEN [content |-> input.text, source_type |-> "manual input", message |-> ""]
    ELSE IF input.url = <<>>
    THEN [content |-> <<>>, source_type |-> "manual input", message |-> ""]
    ELSE IF "error" \in DOMAIN input.extracted
    THEN [content |-> <<>>, source_type |-> "manual input", message |-> "error"]
    ELSE [content |-> ContentText(input.extracted.content),
          source_type |-> "webpage content", message |-> "success"]

\* faulty variant: a pressed Next advances
Step1AdvanceOnClick(next_clicked, can_proceed) == next_clicked

\* line 358
Step1Advance(next_clicked, can_proceed) == next_clicked /\ can_proceed

\* lines 296-360; Next can be pressed when the last run showed it enabled
render_wizard_step_1(input, next_clicked) ==
    /\ next_clicked =>
          (wizard_shown.step = 1 /\ wizard_shown.can_proceed /\ ~wizard_shown.rerun)
    /\ LET c == Step1Content(input)
           stored == SetItems(session_state,
                              [wizard_content |-> c.content,
                               wizard_source_type |-> c.source_type])
           can_proceed == StripPieces(c.content) /= <<>>
           advance == Step1Advance(next_clicked, can_proceed)
       IN  /\ session_state' = IF advance THEN SetItems(stored, [wizard_step |-> 2])
                               ELSE stored
           /\ wizard_shown' = Screen(1, can_proceed, FALSE, c.message, NoTip, advance)
    /\ requests_made' = requests_made

\* lines 363-427; in the run after st.rerun() the widgets show the stored
\* values; the text area of step 3 is not rendered, and its value may be
\* dropped from the session
render_wizard_step_2(p, category, uc, click, dropped) ==
    /\ click /= "none" => (wizard_shown.step = 2 /\ ~wizard_shown.rerun)
    /\ wizard_shown.step /= 2 =>
          /\ p = DictGetDefault(session_state, "wizard_platform", "Instagram")
          /\ category = DictGetDefault(session_state, "wizard_category", "Business")
          /\ uc = DictGetDefault(session_state, "wizard_count", 10)
    /\ LET t == platform_tip(p, uc)
           kept == IF dropped THEN DelItems(session_state, {"hashtags_text"})
                   ELSE session_state
           stored == SetItems(kept, [wizard_platform |-> p,
                                     wizard_category |-> category,
                                     wizard_count |-> uc])
       IN  IF t.state = "raised"
           THEN /\ session_state' = kept
                /\ wizard_shown' = Screen(2, TRUE, FALSE, "exception", NoTip, FALSE)
           ELSE /\ session_state' =
                     IF click = "previous" THEN SetItems(stored, [wizard_step |-> 1])
                     ELSE IF click = "next" THEN SetItems(stored, [wizard_step |-> 3])
                     ELSE stored
                /\ wizard_shown' = Screen(2, TRUE, FALSE, "", t, click /= "none")
    /\ requests_made' = requests_made

\* line 526
ClearedByStartOver(key) ==
    \/ key \in {"wizard_step", "wizard_content", "wizard_source_type",
                "wizard_platform", "wizard_category", "wizard_count"}
    \/ key \in {"generated_hashtags", "hashtags_text"}

\* faulty variant: the tags are looked for under another key
StoredTagsOtherKey(d) == DictGetDefault(d, "hashtags", <<>>)

\* line 437
StoredTags(d) == DictGetDefault(d, "generated_hashtags", <<>>)

\* lines 430-529: the generate section (439-481) when no tags are stored,
\* the results (482-529) otherwise.  outcome is what
\* generate_hashtags_with_exa does with the stored settings; edited is
\* what the user made of the text area, <<>> when they left it alone
render_wizard_step_3(click, outcome, edited) ==
    /\ click /= "none" => (wizard_shown.step = 3 /\ ~wizard_shown.rerun)
    /\ click = "generate" => wizard_shown.show_generate
    /\ click = "start over" => ~wizard_shown.show_generate
    /\ IF StoredTags(session_state) = <<>>
       THEN IF click = "previous"
            THEN /\ session_state' = SetItems(session_state, [wizard_step |-> 2])
                 /\ wizard_shown' = Screen(3, TRUE, TRUE, "", NoTip, TRUE)
                 /\ requests_made' = requests_made
            ELSE IF click = "generate"
            THEN LET optimal_count ==
                         adjust_count_for_platform(
                             DictGetDefault(session_state, "wizard_platform", "Instagram"),
                             DictGetDefault(session_state, "wizard_count", 10))
                 IN  IF optimal_count.state = "raised"
                     THEN /\ session_state' = session_state
                          /\ wizard_shown' = Screen(3, TRUE, TRUE, "exception", NoTip, FALSE)
                          /\ requests_made' = requests_made
                     ELSE /\ requests_made' = requests_made + 1
                          /\ IF outcome.state = "raised"
                             THEN /\ session_state' = session_state
                                  /\ wizard_shown' =
                                        Screen(3, TRUE, TRUE, "error generating", NoTip, FALSE)
                             ELSE IF outcome.value.tags = <<>>
                             THEN /\ session_state' = session_state
                                  /\ wizard_shown' =
                                        Screen(3, TRUE, TRUE, "no hashtags returned", NoTip, FALSE)
                             ELSE /\ session_state' =
                                        SetItems(session_state,
                                                 [generated_hashtags |-> outcome.value.tags,
                                                  hashtags_text |-> Join(outcome.value.tags),
                                                  exa_insights |-> outcome.value.exa_insights])
                                  /\ wizard_shown' =
                                        IF outcome.value.exa_insights.is_dict
                                        THEN Screen(3, TRUE, TRUE, "success", NoTip, TRUE)
                                        ELSE Screen(3, TRUE, TRUE, "error generating", NoTip, FALSE)
            ELSE /\ click = "none"
                 /\ session_state' = session_state
                 /\ wizard_shown' = Screen(3, TRUE, TRUE, "", NoTip, FALSE)
                 /\ requests_made' = requests_made
       ELSE LET text == IF edited /= <<>> /\ ~wizard_shown.rerun /\ wizard_shown.step = 3
                                  /\ ~wizard_shown.show_generate
                        THEN edited
                        ELSE DictGetDefault(session_state, "hashtags_text",
                                            Join(StoredTags(session_state)))
                shown == SetItems(session_state, [hashtags_text |-> text])
            IN  /\ session_state' =
                      IF click = "previous" THEN SetItems(shown, [wizard_step |-> 2])
                      ELSE IF click = "start over"
                      THEN SetItems(DelItems(shown, {k \in DOMAIN shown : ClearedByStartOver(k)}),
                                    [wizard_step |-> 1])
                      ELSE shown
                /\ wizard_shown' = Screen(3, TRUE, FALSE, "", NoTip,
                                          click \in {"previous", "start over"})
                /\ requests_made' = requests_made

\* the script: the step that wizard_step names is rendered
WizardStep1(input, next_clicked) ==
    /\ current_step(session_state) = 1
    /\ render_wizard_step_1(input, next_clicked)

WizardStep2(p, category, uc, click, dropped) ==
    /\ current_step(session_state) = 2
    /\ render_wizard_step_2(p, category, uc, click, dropped)

WizardStep3(click, outcome, edited) ==
    /\ current_step(session_state) = 3
    /\ render_wizard_step_3(click, outcome, edited)

\* nothing called yet apart from the part a specification is about
InitWizardIdle ==
    /\ session_state = EmptyDict
    /\ wizard_shown = Screen(0, FALSE, FALSE, "", NoTip, FALSE)
    /\ requests_made = 0

InitOtherIdle ==
    /\ history = <<>>
    /\ url = <<>>
    /\ InitUrlIdle
    /\ InitWizardIdle

\* generate_hashtags alone: every num, the legacy template, every reply;
\* the credential in the secrets store or nowhere
SpecSeed == <<" ", "fitness">>

Init ==
    /\ secrets \in {[raises |-> FALSE, entries |-> d] :
                       d \in {EmptyDict, WithCredential("secret-key")}}
    /\ environ = EmptyDict
    /\ InitGen
    /\ InitAdjIdle
    /\ InitTables
    /\ InitPromptIdle
    /\ InitMainIdle
    /\ InitOtherIdle

Next ==
    \/ \E n \in 0..MaxNum :
          Call(SpecSeed, n, BASE_PROMPT) /\ UNCHANGED <<adjVars, tabVars, promptVars, mainVars, otherVars>>
    \/ \E exc \in GatewayFailures :
          GatewayRaises(exc) /\ UNCHANGED <<adjVars, tabVars, promptVars, mainVars, otherVars>>
    \/ pc = "calling" /\ \E r \in Responses :
          GatewayReturns(r) /\ UNCHANGED <<adjVars, tabVars, promptVars, mainVars, otherVars>>
    \/ LoopStep /\ UNCHANGED <<adjVars, tabVars, promptVars, mainVars, otherVars>>
    \/ LoopExit /\ UNCHANGED <<adjVars, tabVars, promptVars, mainVars, otherVars>>

Spec == Init /\ [][Next]_vars

\* the count adjuster alone, for every platform name and requested count
InitAdjust ==
    /\ secrets = [raises |-> FALSE, entries |-> WithCredential("secret-key")]
    /\ environ = EmptyDict
    /\ InitGen
    /\ InitAdjIdle
    /\ InitTables
    /\ InitPromptIdle
    /\ InitMainIdle
    /\ InitOtherIdle

NextAdjust ==
    \E p \in PlatformNames : \E c \in (-MaxCount)..MaxCount :
        AdjustCount(p, c) /\ UNCHANGED <<genVars, promptVars, mainVars, otherVars>>

SpecAdjust == InitAdjust /\ [][NextAdjust]_vars

\* the pieces a content text is made of: words, a blank, the two braces and
\* the name of a field of the legacy template
ContentPieces == {"launching a startup", " ", "{", "}", "seed"}
Contents == UNION {[1..k -> ContentPieces] : k \in 0..MaxContentLen}
SourceTypes == {"manual input", "webpage content"}

\* the lookups and the prompt builder alone, applied to every content,
\* platform name, category name, count and source type
InitPrompt ==
    /\ secrets = [raises |-> FALSE, entries |-> WithCredential("secret-key")]
    /\ environ = EmptyDict
    /\ InitGen
    /\ InitAdjIdle
    /\ InitTables
    /\ \E c \in Contents, p \in PlatformNames, cat \in CategoryNames,
          n \in 1..MaxPromptNum, st \in SourceTypes :
          prompt_args = Args(c, p, cat, n, st)
    /\ last = NoCall
    /\ first = NoCall
    /\ between = FALSE
    /\ InitMainIdle
    /\ InitOtherIdle

NextPrompt ==
    \/ BuildPrompt(prompt_args.content, prompt_args.platform, prompt_args.category,
                   prompt_args.num, prompt_args.source_type)
          /\ UNCHANGED <<genVars, adjVars, first, between, mainVars, otherVars>>
    \/ LookupPlatform(prompt_args.platform) /\ UNCHANGED <<genVars, adjVars, first, between, mainVars, otherVars>>
    \/ LookupCategory(prompt_args.category) /\ UNCHANGED <<genVars, adjVars, first, between, mainVars, otherVars>>
    \/ LookupRequirements(prompt_args.platform) /\ UNCHANGED <<genVars, adjVars, first, between, mainVars, otherVars>>
    \/ LookupKeywords(prompt_args.category) /\ UNCHANGED <<genVars, adjVars, first, between, mainVars, otherVars>>

SpecPrompt == InitPrompt /\ [][NextPrompt]_vars

\* generate_hashtags under every state of the secrets store and of the
\* environment, with a few replies
CredReplies == {SomeText(<<>>), SomeText(<<HASH, 97>>), SomeText(<<97, SPACE, HASH, 65>>),
                NoText, Unreadable}

InitCred ==
    /\ secrets \in SecretsStores
    /\ environ \in Environments
    /\ InitGen
    /\ InitAdjIdle
    /\ InitTables
    /\ InitPromptIdle
    /\ InitMainIdle
    /\ InitOtherIdle

NextCred ==
    \/ \E n \in 0..MaxNum :
          Call(SpecSeed, n, BASE_PROMPT) /\ UNCHANGED <<adjVars, tabVars, promptVars, mainVars, otherVars>>
    \/ \E exc \in GatewayFailures :
          GatewayRaises(exc) /\ UNCHANGED <<adjVars, tabVars, promptVars, mainVars, otherVars>>
    \/ pc = "calling" /\ \E r \in CredReplies :
          GatewayReturns(r) /\ UNCHANGED <<adjVars, tabVars, promptVars, mainVars, otherVars>>
    \/ LoopStep /\ UNCHANGED <<adjVars, tabVars, promptVars, mainVars, otherVars>>
    \/ LoopExit /\ UNCHANGED <<adjVars, tabVars, promptVars, mainVars, otherVars>>

SpecCred == InitCred /\ [][NextCred]_vars

\* generate_hashtags invoked again and again by one caller: replies that
\* share tokens ("#a #A", "#A #a #a", "a!"), no text, failures
SeqNums == {1, 2}
SeqReplies == {SomeText(<<HASH, 97, SPACE, HASH, 65>>),
               SomeText(<<HASH, 65, SPACE, HASH, 97, SPACE, HASH, 97>>),
               SomeText(<<97, 33>>), NoText}

NextSeq ==
    \/ Len(history) < MaxCalls /\ \E n \in SeqNums :
          Call(SpecSeed, n, BASE_PROMPT)
              /\ UNCHANGED <<adjVars, tabVars, promptVars, mainVars, otherVars>>
    \/ \E exc \in GatewayFailures :
          GatewayRaises(exc) /\ UNCHANGED <<adjVars, tabVars, promptVars, mainVars, otherVars>>
    \/ pc = "calling" /\ \E r \in SeqReplies :
          GatewayReturns(r) /\ UNCHANGED <<adjVars, tabVars, promptVars, mainVars, otherVars>>
    \/ LoopStep /\ UNCHANGED <<adjVars, tabVars, promptVars, mainVars, otherVars>>
    \/ LoopExit /\ UNCHANGED <<adjVars, tabVars, promptVars, mainVars, otherVars>>
    \/ Return /\ UNCHANGED <<adjVars, tabVars, promptVars, mainVars, urlVars, wizVars>>

SpecSeq == Init /\ [][NextSeq]_vars

\* get_enhanced_prompt called again and again, with lookups and count
\* adjustments in between; the first call is remembered
RepeatPlatforms == {"LinkedIn", "Facebook"}
RepeatCategories == {"Business", "Gaming"}
RepeatContents == {<<"launching a startup">>, <<"{", "seed", "}">>}

\* the bookkeeping of a step that calls get_enhanced_prompt
RememberBuild ==
    /\ first' = IF first = NoCall THEN last' ELSE first
    /\ between' = (between \/ (first /= NoCall /\ last'.args /= first.args))

\* the bookkeeping of any other step
RememberOther ==
    /\ first' = first
    /\ between' = (between \/ first /= NoCall)

NextRepeat ==
    \/ \E c \in RepeatContents, p \in RepeatPlatforms, cat \in RepeatCategories,
          n \in 1..MaxPromptNum :
          BuildPrompt(c, p, cat, n, "manual input") /\ RememberBuild
              /\ UNCHANGED <<genVars, adjVars, mainVars, otherVars>>
    \/ \E p \in RepeatPlatforms :
          LookupPlatform(p) /\ RememberOther /\ UNCHANGED <<genVars, adjVars, mainVars, otherVars>>
    \/ \E c \in RepeatCategories :
          LookupCategory(c) /\ RememberOther /\ UNCHANGED <<genVars, adjVars, mainVars, otherVars>>
    \/ \E p \in RepeatPlatforms :
          AdjustCount(p, 10) /\ RememberOther
              /\ UNCHANGED <<genVars, prompt_args, last, mainVars, otherVars>>

SpecRepeat == InitAdjust /\ [][NextRepeat]_vars

\* every operation of the core next to the tables: the prompt builder, the
\* lookups, the count adjuster and one invocation of generate_hashtags
NextTables ==
    \/ \E p \in RepeatPlatforms, cat \in RepeatCategories, n \in 1..MaxPromptNum :
          BuildPrompt(<<"launching a startup">>, p, cat, n, "manual input")
              /\ UNCHANGED <<genVars, adjVars, first, between, mainVars, otherVars>>
    \/ \E p \in RepeatPlatforms :
          LookupPlatform(p) /\ UNCHANGED <<genVars, adjVars, first, between, mainVars, otherVars>>
    \/ \E c \in RepeatCategories :
          LookupCategory(c) /\ UNCHANGED <<genVars, adjVars, first, between, mainVars, otherVars>>
    \/ \E p \in RepeatPlatforms :
          LookupRequirements(p) /\ UNCHANGED <<genVars, adjVars, first, between, mainVars, otherVars>>
    \/ \E c \in RepeatCategories :
          LookupKeywords(c) /\ UNCHANGED <<genVars, adjVars, first, between, mainVars, otherVars>>
    \/ \E p \in RepeatPlatforms : \E c \in {1, 10} :
          AdjustCount(p, c) /\ UNCHANGED <<genVars, promptVars, mainVars, otherVars>>
    \/ \E n \in SeqNums :
          Call(SpecSeed, n, BASE_PROMPT)
              /\ UNCHANGED <<adjVars, tabVars, promptVars, mainVars, otherVars>>
    \/ \E exc \in GatewayFailures :
          GatewayRaises(exc) /\ UNCHANGED <<adjVars, tabVars, promptVars, mainVars, otherVars>>
    \/ pc = "calling" /\ \E r \in SeqReplies :
          GatewayReturns(r) /\ UNCHANGED <<adjVars, tabVars, promptVars, mainVars, otherVars>>
    \/ LoopStep /\ UNCHANGED <<adjVars, tabVars, promptVars, mainVars, otherVars>>
    \/ LoopExit /\ UNCHANGED <<adjVars, tabVars, promptVars, mainVars, otherVars>>

SpecTables == InitAdjust /\ [][NextTables]_vars

\* main: the widgets' values, the contents typed, the replies given
MinSlider == 5
MaxSlider == 20
MainPlatforms == {"Instagram", "TikTok", "LinkedIn", "Twitter", "YouTube"}
MainCategories == {"Business", "Lifestyle", "Technology", "Travel", "Food",
                   "Fitness", "Education", "Entertainment"}
MainContents ==
    {<<>>, <<" ">>, <<"launching a startup">>, <<" ", "launching a startup", " ">>,
     <<"{", "seed", "}">>, <<"{", "launching a startup", "}">>, <<"{">>, <<"}">>,
     <<"{", "}">>, <<"{", "{">>}

\* "#startup #entrepreneur #startup #Leadership #growth #extra"
ExampleReply ==
    <<35, 115, 116, 97, 114, 116, 117, 112, 32, 35, 101, 110, 116, 114, 101, 112, 114, 101, 110, 101, 117, 114, 32, 35, 115, 116, 97, 114, 116, 117, 112, 32, 35, 76, 101, 97, 100, 101, 114, 115, 104, 105, 112, 32, 35, 103, 114, 111, 119, 116, 104, 32, 35, 101, 120, 116, 114, 97>>
\* "#aa #bb ... #mm": thirteen different tags
ManyTagsReply ==
    <<35, 97, 97, 32, 35, 98, 98, 32, 35, 99, 99, 32, 35, 100, 100, 32, 35, 101, 101, 32, 35, 102, 102, 32, 35, 103, 103, 32, 35, 104, 104, 32, 35, 105, 105, 32, 35, 106, 106, 32, 35, 107, 107, 32, 35, 108, 108, 32, 35, 109, 109>>
MainReplies == {SomeText(ExampleReply), SomeText(ManyTagsReply), SomeText(<<SPACE>>),
                NoText}

InitMain ==
    /\ secrets \in {[raises |-> FALSE, entries |-> d] :
                       d \in {EmptyDict, WithCredential("secret-key")}}
    /\ environ = EmptyDict
    /\ InitGen
    /\ InitAdjIdle
    /\ InitTables
    /\ InitPromptIdle
    /\ InitMainIdle
    /\ InitOtherIdle

NextMain ==
    \/ pc = "idle" /\ \E c \in MainContents, p \in MainPlatforms,
          cat \in MainCategories, uc \in MinSlider..MaxSlider, st \in SourceTypes :
          MainClick(c, p, cat, uc, st) /\ UNCHANGED <<first, between, otherVars>>
    \/ \E exc \in GatewayFailures :
          GatewayRaises(exc) /\ UNCHANGED <<adjVars, tabVars, promptVars, mainVars, otherVars>>
    \/ pc = "calling" /\ \E r \in MainReplies :
          GatewayReturns(r) /\ UNCHANGED <<adjVars, tabVars, promptVars, mainVars, otherVars>>
    \/ LoopStep /\ UNCHANGED <<adjVars, tabVars, promptVars, mainVars, otherVars>>
    \/ LoopExit /\ UNCHANGED <<adjVars, tabVars, promptVars, mainVars, otherVars>>
    \/ MainFinish /\ UNCHANGED <<adjVars, tabVars, promptVars, otherVars>>

SpecMain == InitMain /\ [][NextMain]_vars

\* main run after run: clicks with blank content, with content and with
\* content that makes the prompt fail; replies with tags, with other tags,
\* with none; failures
SessionContents == {<<" ">>, <<"launching a startup">>, <<"{", "seed", "}">>}
SessionPlatforms == {"LinkedIn", "Twitter"}
\* "#a #b"
OtherReply == <<35, 97, 32, 35, 98>>
SessionReplies == {SomeText(ExampleReply), SomeText(OtherReply), SomeText(<<SPACE>>), NoText}

NextSession ==
    \/ /\ pc = "idle"
       /\ Len(sent) < MaxCalls
       /\ \E c \in SessionContents, p \in SessionPlatforms, uc \in {MinSlider, MaxSlider} :
             MainClick(c, p, "Business", uc, "manual input")
                 /\ UNCHANGED <<first, between, otherVars>>
    \/ \E exc \in GatewayFailures :
          GatewayRaises(exc) /\ UNCHANGED <<adjVars, tabVars, promptVars, mainVars, otherVars>>
    \/ pc = "calling" /\ \E r \in SessionReplies :
          GatewayReturns(r) /\ UNCHANGED <<adjVars, tabVars, promptVars, mainVars, otherVars>>
    \/ LoopStep /\ UNCHANGED <<adjVars, tabVars, promptVars, mainVars, otherVars>>
    \/ LoopExit /\ UNCHANGED <<adjVars, tabVars, promptVars, mainVars, otherVars>>
    \/ MainFinish /\ UNCHANGED <<adjVars, tabVars, promptVars, otherVars>>
    \/ MainRerun /\ UNCHANGED <<adjVars, tabVars, promptVars, otherVars>>

SpecSession == InitMain /\ [][NextSession]_vars

\* extract_content_from_url on every URL put together from a few pieces:
\* "http", "https", "ftp", ":", "//", "a.b", "/p", "[", " "
UrlPieces ==
    {<<104, 116, 116, 112>>, <<104, 116, 116, 112, 115>>, <<102, 116, 112>>,
     <<58>>, <<47, 47>>, <<97, 46, 98>>, <<47, 112>>, <<91>>, <<32>>}

RECURSIVE UrlsOf(_)
UrlsOf(k) ==
    IF k = 0 THEN {<<>>}
    ELSE LET shorter == UrlsOf(k - 1)
         IN  shorter \cup {u \o piece : u \in shorter, piece \in UrlPieces}

Urls == UrlsOf(MaxUrlParts)

\* what requests.get, raise_for_status and the parser are given to raise
FetchErrors ==
    {[type |-> "ConnectionError", request_exception |-> TRUE, msg |-> <<"connection refused">>],
     [type |-> "HTTPError", request_exception |-> TRUE, msg |-> <<"404 Client Error">>],
     [type |-> "UnicodeError", request_exception |-> FALSE, msg |-> <<"label too long">>]}
ParseErrors == {[type |-> "RecursionError", msg |-> <<"maximum recursion depth exceeded">>]}

\* the pages: nothing to extract; everything, with headings and paragraphs
\* the filters drop and paragraphs past the third; only a short paragraph
Pages ==
    {Page("", "", <<>>, <<>>),
     Page("T", "D",
          <<Text("h1", 10), Text("h2", 250), Text("h3", 0), Text("h4", 20),
            Text("h5", 30), Text("h6", 40)>>,
          <<Text("p1", 60), Text("p2", 20), Text("p3", 300), Text("p4", 300),
            Text("p5", 80)>>),
     Page("", "", <<>>, <<Text("p1", 50)>>)}

InitExtract ==
    /\ secrets = [raises |-> FALSE, entries |-> WithCredential("secret-key")]
    /\ environ = EmptyDict
    /\ InitGen
    /\ InitAdjIdle
    /\ InitTables
    /\ InitPromptIdle
    /\ InitMainIdle
    /\ history = <<>>
    /\ url \in Urls
    /\ InitUrlIdle
    /\ InitWizardIdle

NextExtract ==
    \/ ExtractCall
          /\ UNCHANGED <<genVars, adjVars, tabVars, promptVars, mainVars, callerVars, wizVars>>
    \/ \E e \in FetchErrors :
          FetchRaises(e)
              /\ UNCHANGED <<genVars, adjVars, tabVars, promptVars, mainVars, callerVars, wizVars>>
    \/ \E e \in ParseErrors :
          ParseRaises(e)
              /\ UNCHANGED <<genVars, adjVars, tabVars, promptVars, mainVars, callerVars, wizVars>>
    \/ \E page \in Pages :
          FetchReturns(page)
              /\ UNCHANGED <<genVars, adjVars, tabVars, promptVars, mainVars, callerVars, wizVars>>

SpecExtract == InitExtract /\ [][NextExtract]_vars

\* the wizard: what is typed at step 1 and what a URL gives, the settings
\* of step 2, the outcomes of generate_hashtags_with_exa, the edits of the
\* text area
WizardUrl == <<104, 116, 116, 112, 115, 58, 47, 47, 97, 46, 98, 47, 112>>
WizardInputs ==
    {ManualInput(c) : c \in {<<>>, <<" ">>, <<"launching a startup">>}}
    \cup {UrlInput(<<>>, EmptyDict), UrlInput(WizardUrl, FetchFailed(<<"connection refused">>))}
    \cup {UrlInput(WizardUrl, ContentDict(page, WizardUrl)) : page \in Pages}
WizardPlatforms == {"Instagram", "LinkedIn", "Twitter"}
WizardCategories == {"Business", "Travel"}
WizardCounts == {MinSlider, 10, MaxSlider}
\* "#a", "#b", "#c"
TagA == <<35, 97>>
TagB == <<35, 98>>
TagC == <<35, 99>>
ExaInsights ==
    {[is_dict |-> TRUE, success |-> TRUE], [is_dict |-> TRUE, success |-> FALSE],
     [is_dict |-> FALSE, success |-> FALSE]}
ExaOutcomes ==
    {Returned([tags |-> t, exa_insights |-> i]) :
        t \in {<<>>, <<TagA, TagB>>, <<TagC>>}, i \in ExaInsights}
    \cup {Raised(Err("RuntimeError", <<"Missing GEMINI_API_KEY">>))}
WizardEdits == {<<>>, TagB}

InitWizard ==
    /\ secrets = [raises |-> FALSE, entries |-> WithCredential("secret-key")]
    /\ environ = EmptyDict
    /\ InitGen
    /\ InitAdjIdle
    /\ InitTables
    /\ InitPromptIdle
    /\ InitMainIdle
    /\ InitOtherIdle

NextWizard ==
    \/ \E input \in WizardInputs, next_clicked \in BOOLEAN :
          /\ WizardStep1(input, next_clicked)
          /\ UNCHANGED <<genVars, adjVars, tabVars, promptVars, mainVars, callerVars, urlVars>>
    \/ \E p \in WizardPlatforms, category \in WizardCategories, uc \in WizardCounts,
          click \in {"none", "previous", "next"}, dropped \in BOOLEAN :
          /\ WizardStep2(p, category, uc, click, dropped)
          /\ UNCHANGED <<genVars, adjVars, tabVars, promptVars, mainVars, callerVars, urlVars>>
    \/ \E click \in {"none", "previous", "generate", "start over"},
          outcome \in ExaOutcomes, edited \in WizardEdits :
          /\ click = "generate" => requests_made < MaxCalls
          /\ WizardStep3(click, outcome, edited)
          /\ UNCHANGED <<genVars, adjVars, tabVars, promptVars, mainVars, callerVars, urlVars>>

SpecWizard == InitWizard /\ [][NextWizard]_vars

---------------------------------------------------------------------------
(* Vocabulary of the properties.                                           *)

\* the elements of a list
Range(f) == {f[i] : i \in 1..Len(f)}

NoDuplicates(f) == \A i, j \in 1..Len(f) : i /= j => f[i] /= f[j]

\* the characters of a raw token that are ASCII letters, digits or '_'
AsciiKept(tok) == SelectSeq(tok, LAMBDA ch : IsAsciiAlnum(ch) \/ ch = UNDERSCORE)

\* the characters of a raw token that are letters or digits of any script, or '_'
UnicodeKept(tok) == SelectSeq(tok, LAMBDA ch : IsAlnum(ch) \/ ch = UNDERSCORE)

\* '#' followed by one or more ASCII letters, digits or underscores
IsHashtagToken(t) ==
    /\ Len(t) > 1
    /\ t[1] = HASH
    /\ \A k \in 2..Len(t) : IsAsciiAlnum(t[k]) \/ t[k] = UNDERSCORE

\* the normalization loop has started (and maybe ended) on raw_tokens
InLoop == pc = "loop" \/ (pc = "returned" /\ raw_tokens /= <<>>)

\* the raw tokens the loop has taken so far
Taken == 1..idx

\* the gateway call succeeded and its text is missing, empty or whitespace only
BlankReply ==
    /\ response.state \in {"none", "text"}
    /\ \A i \in 1..Len(response.text) : response.text[i] \in {SPACE, NEWLINE}

---------------------------------------------------------------------------
(* C1..C8: the normalization loop of generate_hashtags.                    *)

\* C1: whatever the reply text, and for every num >= 0 (0 included), the
\* returned list has at most num entries.
C1_AtMostMaxCount == pc = "returned" => Len(result) <= num

\* C2: at every step of the loop the accepted list has no two equal
\* elements and seen is exactly the set of accepted tokens; the returned list
\* has no two equal elements.
C2_NoDuplicates ==
    /\ NoDuplicates(cleaned)
    /\ seen = Range(cleaned)
    /\ pc = "returned" => NoDuplicates(result)

\* C2 case: a raw token whose cleaned form was already accepted has been taken
C2_Witness ==
    /\ pc = "returned"
    /\ Len(result) >= 2
    /\ \E i, j \in Taken : i < j
         /\ CleanToken(raw_tokens[i]) = CleanToken(raw_tokens[j])
         /\ CleanToken(raw_tokens[i]) \in Range(result)

\* C3: every element of the returned list is '#' followed by one or more
\* ASCII letters, ASCII digits or underscores, every other character of the raw
\* token having been dropped.
C3_AsciiOnly ==
    pc = "returned" =>
        \A i \in 1..Len(result) :
            /\ IsHashtagToken(result[i])
            /\ \E k \in Taken : result[i] = <<HASH>> \o AsciiKept(raw_tokens[k])

\* C4: the accepted tokens are listed in first-seen order: of two accepted
\* tokens, the one whose cleaned form first occurs earlier among the raw tokens
\* comes first, and a later repeat of a token moves nothing.
FirstPos(t) ==
    CHOOSE k \in 1..Len(raw_tokens) :
        /\ CleanToken(raw_tokens[k]) = t
        /\ \A l \in 1..(k - 1) : CleanToken(raw_tokens[l]) /= t

C4_FirstSeenOrder ==
    InLoop =>
        /\ \A i \in 1..Len(cleaned) :
              \E k \in Taken : CleanToken(raw_tokens[k]) = cleaned[i]
        /\ \A i, j \in 1..Len(cleaned) :
              i < j => FirstPos(cleaned[i]) < FirstPos(cleaned[j])
        /\ pc = "returned" => result = cleaned

\* C4 case: two tokens accepted, then a repeat of the first one taken
C4_Witness ==
    /\ pc = "returned"
    /\ Len(result) = 2
    /\ idx >= 3
    /\ CleanToken(raw_tokens[idx]) = result[1]
    /\ \E k \in 1..(idx - 1) : CleanToken(raw_tokens[k]) = result[2]

\* C5: duplicates are found by exact string match of the cleaned tokens:
\* every taken raw token with a non-empty body has its cleaned form in the list
\* exactly once, however often it occurred, and two cleaned forms that differ
\* only in letter case are two entries.
C5_ExactMatchDedup ==
    InLoop =>
        /\ \A k \in Taken :
              LET t == CleanToken(raw_tokens[k])
              IN  Len(t) > 1 =>
                     Cardinality({i \in 1..Len(cleaned) : cleaned[i] = t}) = 1
        /\ \A k, l \in Taken :
              LET t == CleanToken(raw_tokens[k])
                  u == CleanToken(raw_tokens[l])
              IN  (Len(t) > 1 /\ t /= u /\ Lower(t) = Lower(u)) =>
                     \E i, j \in 1..Len(cleaned) :
                        i /= j /\ cleaned[i] = t /\ cleaned[j] = u

\* C5 case: #a, #a and #A taken: one #a and one #A returned
C5_Witness ==
    /\ pc = "returned"
    /\ idx = 3
    /\ CleanToken(raw_tokens[1]) = <<HASH, 97>>
    /\ CleanToken(raw_tokens[2]) = <<HASH, 97>>
    /\ CleanToken(raw_tokens[3]) = <<HASH, 65>>
    /\ result = << <<HASH, 97>>, <<HASH, 65>> >>

\* C6: normalizing the space-joined returned list, with any limit not
\* below its length, returns the list itself.
C6_Idempotent ==
    pc = "returned" =>
        \A m \in Len(result)..(MaxNum + 1) : Normalize(Join(result), m) = result

\* C6 case: a reply that was not clean already and gave two tokens
C6_Witness ==
    /\ pc = "returned"
    /\ Len(result) = 2
    /\ response.text /= Join(result)

\* C7: a successful gateway call whose text is missing, empty or only
\* whitespace and newlines ends in the empty list and no error.
C7_BlankGivesEmpty ==
    BlankReply => pc = "returned" /\ result = <<>> /\ error = NoError

\* C7 case: a reply made of spaces and newlines
C7_Witness ==
    /\ pc = "returned"
    /\ BlankReply
    /\ SPACE \in Range(response.text)
    /\ NEWLINE \in Range(response.text)

\* C8: every accepted token has exactly one '#', in front, and every
\* taken raw token that has a letter, digit or underscore (digits alone as well)
\* is retained as '#' followed by those characters, whether or not it started
\* with '#'.
C8_PrefixNormalized ==
    InLoop =>
        /\ \A i \in 1..Len(cleaned) :
              /\ cleaned[i][1] = HASH
              /\ \A k \in 2..Len(cleaned[i]) : cleaned[i][k] /= HASH
        /\ \A k \in Taken :
              Len(UnicodeKept(raw_tokens[k])) > 0 =>
                 <<HASH>> \o UnicodeKept(raw_tokens[k]) \in Range(cleaned)

\* C8 case: the raw token 2#2, with no leading '#', an inner '#' and digits only
C8_Witness ==
    /\ pc = "returned"
    /\ raw_tokens = << <<50, HASH, 50>> >>
    /\ result = << <<HASH, 50, 50>> >>

---------------------------------------------------------------------------
(* C9, C10: adjust_count_for_platform.                                     *)

MinOf(p) == PLATFORM_CONFIG[p].optimal_count[1]
MaxOf(p) == PLATFORM_CONFIG[p].optimal_count[2]

\* C9: for a platform of the catalog the count is returned unchanged
\* inside the platform's range, as the minimum below it and as the maximum
\* above it (Twitter: 10 gives 3, 2 gives 2).
C9_Clamp ==
    (adjusted.state /= "none" /\ platform \in DOMAIN PLATFORM_CONFIG) =>
        /\ adjusted.state = "returned"
        /\ (MinOf(platform) <= user_count /\ user_count <= MaxOf(platform))
              => adjusted.value = user_count
        /\ user_count < MinOf(platform) => adjusted.value = MinOf(platform)
        /\ user_count > MaxOf(platform) => adjusted.value = MaxOf(platform)
        /\ (platform = "Twitter" /\ user_count = 10) => adjusted.value = 3
        /\ (platform = "Twitter" /\ user_count = 2) => adjusted.value = 2

\* C9 case: Twitter with 10
C9_Witness ==
    /\ platform = "Twitter"
    /\ user_count = 10
    /\ adjusted = Returned(3)

\* C10 as stated: for every platform name, in the catalog or not, and
\* every requested count, no error is raised and the result is positive.
C10_AlwaysPositive ==
    adjusted.state /= "none" =>
        adjusted.state = "returned" /\ adjusted.value > 0

\* C10 amended: no error is raised for any platform name and count; the
\* result is positive for every platform of the catalog, and for a name outside
\* the catalog it is the requested count, unchanged.
C10_NoErrorPositiveInCatalog ==
    adjusted.state /= "none" =>
        /\ adjusted.state = "returned"
        /\ platform \in DOMAIN PLATFORM_CONFIG => adjusted.value > 0
        /\ platform \notin DOMAIN PLATFORM_CONFIG => adjusted.value = user_count

\* C10 case: a name outside the catalog with a count that is not positive
C10_Witness ==
    /\ platform \notin DOMAIN PLATFORM_CONFIG
    /\ user_count < 0
    /\ adjusted = Returned(user_count)


---------------------------------------------------------------------------
(* Lookups and the prompt text (SpecPrompt).                               *)

\* the outcome of the last call, when it is a call of fn
CalledFn(fn) == last.fn = fn

\* the prompt q holds the pieces part from position i on
HoldsAt(q, i, part) ==
    /\ i >= 1
    /\ i + Len(part) - 1 <= Len(q)
    /\ SubSeq(q, i, i + Len(part) - 1) = part

\* the profile the platform lookup is to give for name p
ProfileOf(p) ==
    IF p \in DOMAIN PLATFORM_CONFIG THEN PLATFORM_CONFIG[p]
    ELSE PLATFORM_CONFIG["Instagram"]

\* the requirements text stands in q, under its header naming platform p
RequirementsAt(q, i, p) ==
    HoldsAt(q, i, <<RequirementsHeader, p, ":\n", ProfileOf(p).requirements>>)

\* C11: the platform lookup never fails; a catalog name gives its own profile,
\* any other name the Instagram profile; the prompt built for a name outside
\* the catalog carries the Instagram requirements text
C11_PlatformFallback ==
    /\ CalledFn("get_platform_info") =>
          last.out = Returned(ProfileOf(last.args))
    /\ CalledFn("_get_platform_requirements") =>
          last.out = Returned(ProfileOf(last.args).requirements)
    /\ CalledFn("get_enhanced_prompt") =>
          /\ last.out.state = "returned"
          /\ \E i \in 1..Len(last.out.value) :
                RequirementsAt(last.out.value, i, last.args.platform)

C11_Witness ==
    /\ CalledFn("get_platform_info")
    /\ last.args = "Facebook"
    /\ last.out = Returned(PLATFORM_CONFIG["Instagram"])

\* the keyword list the spec gives the category lookup for name c
KeywordsOf(c) ==
    IF c \in DOMAIN CATEGORY_KEYWORDS THEN CATEGORY_KEYWORDS[c]
    ELSE CATEGORY_KEYWORDS["Business"]

\* C12: the category lookup never fails; a catalog name gives its own
\* keywords, any other name the Business keywords, in the list returned and
\* in the prompt
C12_BusinessFallback ==
    /\ CalledFn("get_category_keywords") =>
          last.out = Returned(KeywordsOf(last.args))
    /\ CalledFn("_get_category_keywords") =>
          last.out = Returned(JoinWith(", ", KeywordsOf(last.args)))
    /\ CalledFn("get_enhanced_prompt") =>
          /\ last.out.state = "returned"
          /\ \E i \in 1..Len(last.out.value) :
                HoldsAt(last.out.value, i,
                        <<KeywordsHeader>>
                        \o JoinWith(", ", KeywordsOf(last.args.category))
                        \o <<ContentLabel>>)

\* the parts of a prompt q built for the arguments a
RoleAt(q, i, a) == HoldsAt(q, i, <<RoleIntro, a.platform>>)
ContentAt(q, i, a) == HoldsAt(q, i, <<Quote>> \o a.content \o <<Quote>>)
CategoryAt(q, i, a) ==
    HoldsAt(q, i,
            <<CategoryHeader, a.category, KeywordsHeader>>
            \o (IF a.category \in DOMAIN CATEGORY_KEYWORDS
                THEN JoinWith(", ", CATEGORY_KEYWORDS[a.category])
                ELSE <<>>))
DirectiveAt(q, i, a) == HoldsAt(q, i, <<ExactlyDirective, ToString(a.num)>>)

\* C13 as stated: role statement, content, requirements, category with
\* keywords, directive, in this order
C13_OrderAsStated ==
    CalledFn("get_enhanced_prompt") =>
        /\ last.out.state = "returned"
        /\ LET q == last.out.value
               a == last.args
           IN  \E i1 \in 1..Len(q) :
                 /\ RoleAt(q, i1, a)
                 /\ \E i2 \in (i1 + 1)..Len(q) :
                      /\ ContentAt(q, i2, a)
                      /\ \E i3 \in (i2 + 1)..Len(q) :
                           /\ RequirementsAt(q, i3, a.platform)
                           /\ \E i4 \in (i3 + 1)..Len(q) :
                                /\ CategoryAt(q, i4, a)
                                /\ \E i5 \in (i4 + 1)..Len(q) :
                                     /\ DirectiveAt(q, i5, a)

\* C13, amended: the prompt holds, in this order, the role statement naming
\* the platform, the platform's requirements text, the category name with the
\* keywords of a catalog category joined by ", ", the content between quotes
\* as it was given, and the directive carrying the count
C13_OrderAsBuilt ==
    CalledFn("get_enhanced_prompt") =>
        /\ last.out.state = "returned"
        /\ LET q == last.out.value
               a == last.args
           IN  \E i1 \in 1..Len(q) :
                 /\ RoleAt(q, i1, a)
                 /\ \E i2 \in (i1 + 1)..Len(q) :
                      /\ RequirementsAt(q, i2, a.platform)
                      /\ \E i3 \in (i2 + 1)..Len(q) :
                           /\ CategoryAt(q, i3, a)
                           /\ \E i4 \in (i3 + 1)..Len(q) :
                                /\ ContentAt(q, i4, a)
                                /\ \E i5 \in (i4 + 1)..Len(q) :
                                     /\ DirectiveAt(q, i5, a)

C13_Witness ==
    /\ CalledFn("get_enhanced_prompt")
    /\ last.args = Args(<<"launching a startup">>, "LinkedIn", "Business", 2,
                        "manual input")
    /\ last.out.state = "returned"
    /\ \E i \in 1..Len(last.out.value) :
          HoldsAt(last.out.value, i,
                  <<KeywordsHeader, "entrepreneur", ", ", "startup", ", ",
                    "leadership", ", ", "productivity", ", ", "business", ", ",
                    "marketing", ", ", "sales", ", ", "growth", ContentLabel,
                    Quote, "launching a startup", Quote>>)

---------------------------------------------------------------------------
(* Repeated calls of the prompt builder (SpecRepeat).                      *)

---------------------------------------------------------------------------
(* Credentials and gateway failures (SpecCred).                            *)

\* dict d holds a non-empty credential
Available(d) == CredentialName \in DOMAIN d /\ d[CredentialName] /= ""

SecretAvailable == ~secrets.raises /\ Available(secrets.entries)

\* neither the secrets store nor the environment gives a credential
NoCredential == ~SecretAvailable /\ ~Available(environ)

\* generate_hashtags has been called
Invoked == pc /= "idle"

\* C15: with no credential, generate_hashtags raises an error whose message
\* names GEMINI_API_KEY and that is no gateway error, and the gateway is
\* neither configured nor called
C15_MissingKeyFailsFast ==
    (Invoked /\ NoCredential) =>
        /\ pc = "raised"
        /\ error.type = "RuntimeError"
        /\ \E i \in 1..Len(error.msg) : error.msg[i] = CredentialName
        /\ error.msg[1] /= "Gemini API error: "
        /\ ~configured
        /\ sent = <<>>

C15_Witness ==
    /\ pc = "raised"
    /\ secrets.raises
    /\ environ = WithCredential("")
    /\ error = MissingKeyError
    /\ ~configured

\* C16: get_api_key gives the secrets value when there is a non-empty one,
\* otherwise the environment's value, otherwise "", and never raises
C16_LayeredCredential ==
    /\ get_api_key(secrets, environ).state = "returned"
    /\ Invoked =>
          api_key = IF SecretAvailable THEN secrets.entries[CredentialName]
                    ELSE IF CredentialName \in DOMAIN environ
                         THEN environ[CredentialName]
                         ELSE ""

C16_Witness ==
    /\ Invoked
    /\ secrets = [raises |-> FALSE, entries |-> WithCredential("")]
    /\ environ = WithCredential("env-key")
    /\ api_key = "env-key"

\* the gateway interaction failed: the call raised, or the reply's text
\* cannot be read
GatewayFailed ==
    /\ sent /= <<>>
    /\ response = Unbound \/ response = Unreadable

\* C17: every failure of the gateway interaction reaches the caller as a
\* RuntimeError "Gemini API error: <cause>", which the missing-key error is not
C17_FailuresWrapped ==
    GatewayFailed =>
        /\ pc = "raised"
        /\ error.type = "RuntimeError"
        /\ Len(error.msg) = 2
        /\ error.msg[1] = "Gemini API error: "
        /\ error /= MissingKeyError

\* C18: the completion call is made at most once in an invocation, with the
\* prompt formatted from the arguments; after a failed call the error is
\* raised, and main shows it and stores no tags, with that one call made
C18_NoRetry ==
    /\ Len(sent) <= 1
    /\ sent /= <<>> => sent[1] = FormatPrompt(prompt_template, seed, num).value
    /\ (sent /= <<>> /\ response = Unbound) =>
          /\ pc \in {"raised", "done"}
          /\ error.type = "RuntimeError"
          /\ pc = "done" => shown_error = error /\ generated_hashtags = <<>>

C18_Witness ==
    /\ pc = "done"
    /\ shown_error = GatewayError("DeadlineExceeded")
    /\ sent = <<prompt>>
    /\ prompt /= <<>>
    /\ notice = "info"

---------------------------------------------------------------------------
(* The whole click, from the widgets to the stored tags (SpecMain).        *)

\* C19: with a credential, an error reaches main only from the gateway
\* interaction, and the prompt the gateway receives holds the content between
\* quotes as it was typed
C19_OnlyGatewayFails ==
    (Invoked /\ ~NoCredential /\ ~GatewayFailed) =>
        /\ pc /= "raised"
        /\ shown_error = NoError
        /\ sent /= <<>> =>
              \E i \in 1..Len(sent[1]) :
                  HoldsAt(sent[1], i, <<Quote>> \o prompt_args.content \o <<Quote>>)

\* a list without its repeats, each entry where it first stood
RECURSIVE FirstSeen(_)
FirstSeen(q) ==
    IF q = <<>> THEN <<>>
    ELSE LET r == FirstSeen(SubSeq(q, 1, Len(q) - 1))
         IN  IF q[Len(q)] \in Range(r) THEN r ELSE Append(r, q[Len(q)])

\* the first n entries of a list
CutTo(q, n) == SubSeq(q, 1, IF Len(q) < n THEN Len(q) ELSE n)

\* the cleaned tokens of a reply text that are more than a bare '#'
CleanedTokens(text) ==
    LET toks == Split(ReplaceNewlines(Strip(text)))
        all == [i \in 1..Len(toks) |-> CleanToken(toks[i])]
    IN  SelectSeq(all, LAMBDA t : Len(t) > 1)

\* "#startup", "#entrepreneur", "#Leadership", "#growth", "#extra"
ExampleTags ==
    <<<<35, 115, 116, 97, 114, 116, 117, 112>>,
      <<35, 101, 110, 116, 114, 101, 112, 114, 101, 110, 101, 117, 114>>,
      <<35, 76, 101, 97, 100, 101, 114, 115, 104, 105, 112>>,
      <<35, 103, 114, 111, 119, 116, 104>>,
      <<35, 101, 120, 116, 114, 97>>>>

\* C20: the count in the prompt sent and the limit of the normalization are
\* the adjusted count; the list returned and stored is the cleaned tokens of
\* the reply, without repeats, in first-seen order, cut to that count, so at
\* most the platform's maximum; LinkedIn with 10 requested and the example
\* reply gives the five tags of the example
C20_EndToEnd ==
    /\ Invoked =>
          /\ adjusted.state = "returned"
          /\ num = adjusted.value
          /\ sent /= <<>> =>
                \E i \in 1..Len(sent[1]) :
                    HoldsAt(sent[1], i, <<ExactlyDirective, ToString(adjusted.value)>>)
    /\ (pc \in {"returned", "done"} /\ response.state = "text") =>
          LET expected == CutTo(FirstSeen(CleanedTokens(response.text)), adjusted.value)
          IN  /\ result = expected
              /\ Len(result) <= MaxOf(platform)
              /\ pc = "done" => generated_hashtags = expected
    /\ (pc = "done" /\ platform = "LinkedIn" /\ user_count = 10
            /\ response = SomeText(ExampleReply)) =>
          generated_hashtags = ExampleTags

C20_Witness ==
    /\ pc = "done"
    /\ platform = "LinkedIn"
    /\ user_count = 10
    /\ adjusted = Returned(5)
    /\ prompt_args.content = <<"launching a startup">>
    /\ prompt_args.category = "Business"
    /\ response = SomeText(ExampleReply)
    /\ generated_hashtags = ExampleTags
    /\ hashtags_text = Join(ExampleTags)

---------------------------------------------------------------------------
(* Invocations in a row by one caller (SpecSeq).                           *)

\* the invocations so far that returned a list
ReturnedCalls == {i \in 1..Len(history) : history[i].outcome.state = "returned"}

\* two invocations had the same arguments, credential and reply
SameRequest(a, b) ==
    /\ a.seed = b.seed
    /\ a.num = b.num
    /\ a.prompt_template = b.prompt_template
    /\ a.api_key = b.api_key
    /\ a.reply = b.reply

\* C21: requests are independent: the list an invocation returns depends
\* only on its arguments, the credential and the gateway's reply for it; two
\* invocations of a sequence that agree on these return the same list,
\* whatever tokens the invocations before them have seen or accepted.
C21_Independent ==
    \A i \in ReturnedCalls : \A j \in ReturnedCalls :
        SameRequest(history[i], history[j])
            => history[i].outcome.value = history[j].outcome.value

\* an invocation returned a list after an earlier one, with another reply,
\* had accepted one of the same tokens
C21_Witness ==
    \E i \in ReturnedCalls : \E j \in ReturnedCalls :
        /\ i < j
        /\ history[i].reply /= history[j].reply
        /\ Range(history[i].outcome.value) \cap Range(history[j].outcome.value) /= {}
        /\ \E k \in ReturnedCalls : k < i /\ SameRequest(history[k], history[j])

---------------------------------------------------------------------------
(* The tables under every operation of the core (SpecTables).              *)

\* C22: in every reachable state every platform profile of the catalog has
\* 0 < optimal_count_min <= optimal_count_max, and no operation (prompt
\* building, count adjustment, lookup, generation) has changed the platform
\* or the category table: both are as they were defined.
C22_TablesFixed ==
    /\ platform_config = PLATFORM_CONFIG
    /\ category_keywords = CATEGORY_KEYWORDS
    /\ \A p \in DOMAIN platform_config :
          /\ 0 < platform_config[p].optimal_count[1]
          /\ platform_config[p].optimal_count[1] <= platform_config[p].optimal_count[2]

\* the prompt was built for a category and a platform the tables do not
\* list, the count was adjusted and an invocation has returned a list
C22_Witness ==
    /\ last.fn = "get_enhanced_prompt"
    /\ prompt_args.category \notin DOMAIN CATEGORY_KEYWORDS
    /\ prompt_args.platform \notin DOMAIN PLATFORM_CONFIG
    /\ adjusted.state = "returned"
    /\ pc = "returned"
    /\ result /= <<>>

---------------------------------------------------------------------------
(* The loop's early exit and its discarded tokens (Spec).                  *)

\* the list a reply text yields when the limit is never reached
Unlimited(text) == Normalize(text, Len(text) + 1)

\* C23: early termination is pure truncation: for any raw text and any
\* max_count n, the returned list equals the first n elements of the list
\* the same text yields with no limit.
C23_PureTruncation ==
    pc = "returned" => result = CutTo(Unlimited(response.text), num)

\* a raw token none of whose characters the filter keeps
EmptyBody(token) == UnicodeKept(token) = <<>>

\* the bare '#'
Bare == <<HASH>>

\* C24: a raw token whose body is empty after filtering (only '#'
\* characters, punctuation or other dropped characters) is discarded: the
\* bare '#' is never in the list being built, in the seen set or in the
\* returned list, and the pass of the loop over such a token leaves the list
\* and the seen set as they were and does not end the loop.
C24_EmptyBodyDiscarded ==
    /\ [](Bare \notin Range(cleaned) /\ Bare \notin seen /\ Bare \notin Range(result))
    /\ [][(pc = "loop" /\ idx < Len(raw_tokens) /\ EmptyBody(raw_tokens[idx + 1]))
            => (cleaned' = cleaned /\ seen' = seen /\ pc' = "loop")]_vars

\* the loop took a token with an empty body and then filled the list of one
\* with a later token
C24_Witness ==
    /\ pc = "returned"
    /\ num = 1
    /\ Len(result) = 1
    /\ \E i \in Taken : \E j \in Taken :
          i < j /\ EmptyBody(raw_tokens[i]) /\ ~EmptyBody(raw_tokens[j])

---------------------------------------------------------------------------
(* What main shows after a click (SpecMain).                               *)

\* C25: the caller distinguishes an empty result from an error: when the
\* generation raised, only the error message is shown; the softer "No
\* hashtags returned. Try different content" message is shown only when the
\* generation returned a list with no hashtags.
C25_ErrorOrSofterMessage ==
    pc = "done" =>
        /\ shown_error /= NoError => notice /= "info"
        /\ notice = "info" => (error = NoError /\ result = <<>>)

---------------------------------------------------------------------------
(* extract_content_from_url (SpecExtract).                                 *)

\* urlparse found no scheme or no host in the URL
NoSchemeOrHost ==
    /\ urlparse(url).state = "returned"
    /\ urlparse(url).value.scheme = <<>> \/ urlparse(url).value.netloc = <<>>

\* the dict returned has the key
Has(key) == extracted.state = "returned" /\ key \in DOMAIN extracted.value

---------------------------------------------------------------------------
(* main run after run (SpecSession).                                       *)

\* C27: across any sequence of generate actions of the single-page app, the
\* stored generated_hashtags and hashtags_text are replaced only by a
\* generation that returns a non-empty list, hashtags_text then being the
\* space-joined list; a generation that raises or returns an empty list,
\* and a click with blank content, leave both unchanged and make no further
\* gateway call.
C27_StoredOnlyByTags ==
    [][/\ (generated_hashtags' /= generated_hashtags \/ hashtags_text' /= hashtags_text)
            => /\ pc = "returned"
               /\ result /= <<>>
               /\ generated_hashtags' = result
               /\ hashtags_text' = Join(result)
       /\ (pc' = "done" /\ pc /= "done" /\ (pc = "raised" \/ result = <<>>))
            => /\ generated_hashtags' = generated_hashtags
               /\ hashtags_text' = hashtags_text
               /\ sent' = sent
       /\ (notice' = "warning" /\ notice /= "warning")
            => /\ generated_hashtags' = generated_hashtags
               /\ hashtags_text' = hashtags_text
               /\ sent' = sent
               /\ pc' = "idle"
       /\ sent' /= sent => (Len(sent') = Len(sent) + 1 /\ pc = "calling" /\ pc' /= "calling")
      ]_vars

\* tags are stored from an earlier click and the click after it ended
\* with an error
C27_Witness ==
    /\ pc = "done"
    /\ shown_error /= NoError
    /\ generated_hashtags /= <<>>
    /\ hashtags_text = Join(generated_hashtags)
    /\ Len(sent) = 2

---------------------------------------------------------------------------
(* The platform tip (SpecMain).                                            *)

OutsideRange(p, c) ==
    \/ c < platform_config[p].optimal_count[1]
    \/ c > platform_config[p].optimal_count[2]

\* C30: the platform-range tip never fails on a lookup: whenever the
\* adjusted count differs from the user's count the platform is a key of
\* the platform table, so the tip's lookup is defined, and the tip is shown
\* exactly when the user's count lies outside the platform's range.
C30_TipDefined ==
    /\ tip.state /= "raised"
    /\ (adjusted.state = "returned" /\ adjusted.value /= user_count) =>
          /\ platform \in DOMAIN platform_config
          /\ OutsideRange(platform, user_count)
          /\ tip.state = "returned"
          /\ tip.value = platform_config[platform].optimal_count
    /\ (adjusted.state = "returned" /\ adjusted.value = user_count) =>
          /\ tip.state = "none"
          /\ platform \in DOMAIN platform_config => ~OutsideRange(platform, user_count)

\* LinkedIn with ten requested: the tip shows 3 to 5
C30_Witness ==
    /\ platform = "LinkedIn"
    /\ user_count = 10
    /\ adjusted.state = "returned"
    /\ adjusted.value = 5
    /\ tip.state = "returned"
    /\ tip.value = <<3, 5>>

---------------------------------------------------------------------------
(* The wizard (SpecWizard).                                                *)

WizardContentBlank(d) == StripPieces(DictGetDefault(d, "wizard_content", <<>>)) = <<>>

\* the list under generated_hashtags, empty when there is none
Hashtags(d) == DictGetDefault(d, "generated_hashtags", <<>>)

\* the step of a run that started the wizard over
StartedOver ==
    /\ Hashtags(session_state) /= <<>>
    /\ "generated_hashtags" \notin DOMAIN session_state'
    /\ "hashtags_text" \notin DOMAIN session_state'

\* C28: in the wizard, for every sequence of Next, Previous, content edits
\* and Start Over, the step is always one of 1, 2, 3; it changes by at most
\* one per action except Start Over, which sets it to 1; whenever the step
\* is 2 or 3 the stored content is non-blank after trimming, step 1
\* advancing only when the content is non-blank.
C28_StepsInOrder ==
    /\ [](/\ current_step(session_state) \in {1, 2, 3}
          /\ current_step(session_state) \in {2, 3} => ~WizardContentBlank(session_state))
    /\ [][/\ \/ current_step(session_state') - current_step(session_state) \in {-1, 0, 1}
              \/ StartedOver
          /\ StartedOver => current_step(session_state') = 1
          /\ (current_step(session_state) = 1 /\ current_step(session_state') = 2)
                => ~WizardContentBlank(session_state')
         ]_vars

\* at step 2 again with content from a web page, after tags were generated
\* and the wizard was started over
C28_Witness ==
    /\ current_step(session_state) = 2
    /\ wizard_shown.step = 2
    /\ "exa_insights" \in DOMAIN session_state
    /\ "generated_hashtags" \notin DOMAIN session_state
    /\ "wizard_source_type" \in DOMAIN session_state
    /\ session_state["wizard_source_type"] = "webpage content"

\* C29: in the wizard, once a non-empty list is stored no new generation
\* request is made until Start Over: the stored list stays as it is through
\* going back to step 2, changing the settings and returning, and step 3
\* then shows the results and no Generate; Start Over removes the stored
\* list, the editable text and the wizard_ keys (wizard_step being set to 1
\* anew), after which step 3 offers Generate again.
C29_OneGenerationUntilStartOver ==
    [][/\ requests_made' /= requests_made => Hashtags(session_state) = <<>>
       /\ Hashtags(session_state) /= <<>> =>
             \/ Hashtags(session_state') = Hashtags(session_state)
             \/ /\ StartedOver
                /\ \A k \in DOMAIN session_state' :
                      k \in {"wizard_step", "exa_insights"}
                /\ current_step(session_state') = 1
       /\ wizard_shown'.step = 3 =>
             (wizard_shown'.show_generate <=> Hashtags(session_state) = <<>>)
      ]_vars

\* the results are shown at step 3 with other settings than the defaults,
\* after a second request
C29_Witness ==
    /\ Hashtags(session_state) /= <<>>
    /\ wizard_shown.step = 3
    /\ ~wizard_shown.show_generate
    /\ ~wizard_shown.rerun
    /\ requests_made = 2
    /\ session_state["wizard_platform"] = "Twitter"
    /\ session_state["wizard_count"] = MaxSlider
    /\ session_state["hashtags_text"] /= Join(Hashtags(session_state))

=============================================================================
